---- MODULE Spec2Model ----
(***************************************************************************)
(* A model of NanoAssembler (src/NanoAssembler/NanoAssembler.py): the      *)
(* character-level lexer, the token classifier, the parser state machine,  *)
(* the two Workers (LabelLister, Translator), the Writers and the two      *)
(* orchestrators assemble_to_sram_v_file and assemble_to_stdout.           *)
(*                                                                         *)
(* Text is modelled as a sequence of one-character strings, so that        *)
(* startswith/endswith/slicing and the digit-by-digit literal parser are   *)
(* computed as the code computes them.  Python's None is the empty         *)
(* sequence <<>>, a present value v is <<v>>.                               *)
(***************************************************************************)
EXTENDS Integers, Sequences, FiniteSets, TLC

VARIABLES
  mode,     \* "patch" (assemble_to_sram_v_file) | "dump" (assemble_to_stdout)
            \* | "lex" (the tokenizer alone) | "classify" (the classifier alone)
  source,   \* the characters of the source file; in mode "classify" the raw token
  dest,     \* which destination file the caller names: [kind, k] (see DestFile)
  file,     \* the destination file of patch mode, from first_init_ram_position on
  stdout,   \* sys.stdout: one element per write()/print() call
  pc,       \* position in the orchestrator
  ret,      \* the orchestrator's return value, <<>> while running
  labels,   \* Assembler.__labels
  tokens,   \* what the tokenizer of the running parse yields
  ti,       \* index in tokens of the next token the for loop of parse takes
  perror,   \* what the running parse returns, <<>> = None
  parser,   \* Parser.state with its substate
  worker,   \* the Worker of the running parse
  writer,   \* the Writer of the Translator
  emitted,  \* history: the words the Translator handed to its Writer in this parse;
            \* in mode "classify" the classes whose try_parse accepted the token
  lexer,    \* the local variables of Parser.__tokenize
  lpos,     \* number of characters the tokenizer has read
  raised    \* the exception that has left the running call, <<>> when none has

vars == <<mode, source, dest, file, stdout, pc, ret, labels, tokens, ti, perror,
          parser, worker, writer, emitted, lexer, lpos, raised>>

None == <<>>
Some(v) == <<v>>

LF == "\n"
CR == "\r"

(***************************************************************************)
(* Generic helpers on sequences.                                           *)
(***************************************************************************)
Last(s) == s[Len(s)]
StartsWith(s, p) == Len(s) >= Len(p) /\ SubSeq(s, 1, Len(p)) = p
EndsWith(s, p) == Len(s) >= Len(p) /\ SubSeq(s, Len(s) - Len(p) + 1, Len(s)) = p
Repeat(x, n) == [i \in 1..n |-> x]
RECURSIVE Pow(_, _)
Pow(b, e) == IF e = 0 THEN 1 ELSE b * Pow(b, e - 1)

(***************************************************************************)
(* Token (lines 12-20): raw text with the line and column it was met at.   *)
(***************************************************************************)
Token(raw, line, column) == [raw |-> raw, line |-> line, column |-> column]

(***************************************************************************)
(* Parser.__tokenize (lines 452-588).  The generator's local variables are *)
(* the record ls; a yield appends to ls.out, which is the sequence of      *)
(* tokens the consumer receives, in order.  A yield also suspends the      *)
(* generator: ls.yields holds, for the iteration of the while loop that    *)
(* is running, the local variables at each of its yields, in order.        *)
(***************************************************************************)
LexerInit ==
  [state |-> "WHITESPACE", text_token |-> None, last_newline_char |-> "",
   line |-> 1, column |-> 0, token_start |-> 0, out |-> <<>>, yields |-> <<>>]

\* yield token: the consumer gets the token while the generator is suspended
\* with the local variables it has at the yield
Yield(ls, token) ==
  LET given == [ls EXCEPT !.out = Append(@, token)]
  IN  [given EXCEPT !.yields = Append(@, [given EXCEPT !.yields = <<>>])]

start_text_token(ls, first_char) ==
  [ls EXCEPT !.state = "TEXT", !.text_token = <<first_char>>,
             !.token_start = ls.column]

start_newline_token(ls) ==
  [ls EXCEPT !.state = "NEWLINE", !.token_start = ls.column]

\* yield text()
yield_text(ls) == Yield(ls, Token(ls.text_token, ls.line, ls.token_start))

\* yield newline(): newline() makes the token, does line += 1 and column = 0
\* and returns the token, which is then yielded
yield_newline(ls) ==
  Yield([ls EXCEPT !.line = ls.line + 1, !.column = 0],
        Token(<<LF>>, ls.line, ls.token_start))

\* lines 492-508: end of the source
LexEOF(ls0) ==
  LET ls == [ls0 EXCEPT !.yields = <<>>] IN
  CASE ls.state = "WHITESPACE" ->
         IF ls.last_newline_char = CR THEN yield_newline(ls) ELSE ls
    [] ls.state = "TEXT" -> yield_text(ls)
    [] OTHER -> ls

\* a variant of lines 519-530 in which "\r\n" and "\r\r" yield nothing
LexNewlineChar_NoYieldAfterCR(ls, char) ==
  CASE ls.state \in {"WHITESPACE", "COMMENT"} ->
         LET a == start_newline_token(ls)
             b == IF char = LF THEN yield_newline(a) ELSE a
         IN  [b EXCEPT !.last_newline_char = char]
    [] ls.state = "NEWLINE" ->
         LET a == start_newline_token(ls)
             b == IF ls.last_newline_char = LF /\ char = LF
                    THEN yield_newline(a) ELSE a
         IN  [b EXCEPT !.last_newline_char = char]
    [] ls.state = "TEXT" ->
         LET a == start_newline_token(yield_text(ls))
             b == IF char = LF THEN yield_newline(a) ELSE a
         IN  [b EXCEPT !.last_newline_char = char]

\* lines 511-545: char in "\r\n"
LexNewlineChar(ls, char) ==
  CASE ls.state \in {"WHITESPACE", "COMMENT"} ->
         LET a == start_newline_token(ls)
             b == IF char = LF THEN yield_newline(a) ELSE a
         IN  [b EXCEPT !.last_newline_char = char]
    [] ls.state = "NEWLINE" ->
         LET a == start_newline_token(ls)
             b == IF ls.last_newline_char = LF
                    THEN (IF char = LF THEN yield_newline(a) ELSE a)
                    ELSE yield_newline(a)
         IN  [b EXCEPT !.last_newline_char = char]
    [] ls.state = "TEXT" ->
         LET a == start_newline_token(yield_text(ls))
             b == IF char = LF THEN yield_newline(a) ELSE a
         IN  [b EXCEPT !.last_newline_char = char]

\* lines 549-561: char in " "
LexSpaceChar(ls) ==
  CASE ls.state = "WHITESPACE" -> ls
    [] ls.state = "NEWLINE" ->
         [(IF ls.last_newline_char = CR THEN yield_newline(ls) ELSE ls)
            EXCEPT !.state = "WHITESPACE"]
    [] ls.state = "COMMENT" -> ls
    [] ls.state = "TEXT" -> [yield_text(ls) EXCEPT !.state = "WHITESPACE"]

\* lines 563-575: char == ";"
LexCommentChar(ls) ==
  CASE ls.state = "WHITESPACE" -> [ls EXCEPT !.state = "COMMENT"]
    [] ls.state = "NEWLINE" ->
         [(IF ls.last_newline_char = CR THEN yield_newline(ls) ELSE ls)
            EXCEPT !.state = "COMMENT"]
    [] ls.state = "COMMENT" -> ls
    [] ls.state = "TEXT" -> [yield_text(ls) EXCEPT !.state = "COMMENT"]

\* a variant of lines 577-588 in which a text character after "\r" starts its
\* token without the Newline that is due
LexTextChar_PendingNewlineDropped(ls, char) ==
  CASE ls.state \in {"WHITESPACE", "NEWLINE"} -> start_text_token(ls, char)
    [] ls.state = "COMMENT" -> ls
    [] ls.state = "TEXT" -> [ls EXCEPT !.text_token = Append(@, char)]

\* a variant of lines 577-588 in which the text of a comment starts a token
LexTextChar_CommentNotSkipped(ls, char) ==
  CASE ls.state \in {"WHITESPACE", "COMMENT"} -> start_text_token(ls, char)
    [] ls.state = "NEWLINE" ->
         start_text_token(
           IF ls.last_newline_char = CR THEN yield_newline(ls) ELSE ls, char)
    [] ls.state = "TEXT" -> [ls EXCEPT !.text_token = Append(@, char)]

\* lines 577-588: any other character
LexTextChar(ls, char) ==
  CASE ls.state = "WHITESPACE" -> start_text_token(ls, char)
    [] ls.state = "NEWLINE" ->
         start_text_token(
           IF ls.last_newline_char = CR THEN yield_newline(ls) ELSE ls, char)
    [] ls.state = "COMMENT" -> ls
    [] ls.state = "TEXT" -> [ls EXCEPT !.text_token = Append(@, char)]

\* lines 510-588: one iteration of the while loop on a character that was read
LexChar(ls0, char) ==
  LET ls == [ls0 EXCEPT !.column = @ + 1, !.yields = <<>>]
  IN  IF char \in {CR, LF} THEN LexNewlineChar(ls, char)
      ELSE IF char = " " THEN LexSpaceChar(ls)
      ELSE IF char = ";" THEN LexCommentChar(ls)
      ELSE LexTextChar(ls, char)

\* the loop over chars[lo..hi], split in halves to keep the evaluation shallow
\* (column is never negative: reading it makes TLC evaluate ls, the state the
\* first half ends in, before the second half starts)
RECURSIVE LexRange(_, _, _, _)
LexRange(ls, chars, lo, hi) ==
  IF ls.column < 0 \/ lo > hi THEN ls
  ELSE IF lo = hi THEN LexChar(ls, chars[lo])
  ELSE LET mid == (lo + hi) \div 2
       IN  LexRange(LexRange(ls, chars, lo, mid), chars, mid + 1, hi)

\* every token the generator yields on the source, in order
Tokenize(chars) == LexEOF(LexRange(LexerInit, chars, 1, Len(chars))).out

(***************************************************************************)
(* Token types (lines 22-196).  A classified token is the raw token with   *)
(* the name of its class in the field type.                                *)
(***************************************************************************)
Classified(type, token) ==
  [type |-> type, raw |-> token.raw, line |-> token.line, column |-> token.column]

\* lines 26-29
Newline_try_parse(token) == token.raw = <<LF>>

\* lines 38-41: raw.endswith(":")
LabelDeclaration_try_parse(token) == EndsWith(token.raw, <<":">>)

\* lines 43-44: raw[:-1]
LabelDeclaration_name(token) == SubSeq(token.raw, 1, Len(token.raw) - 1)

\* line 60
RegisterInstruction_CODES ==
  (<<"m", "v">> :> 0) @@ (<<"a", "d", "d">> :> 2) @@ (<<"s", "u", "b">> :> 3) @@
  (<<"l", "d">> :> 4) @@ (<<"s", "t">> :> 5) @@ (<<"m", "v", "n", "z">> :> 6) @@
  (<<"a", "n", "d">> :> 7)

\* lines 65-69
RegisterInstruction_try_parse(token) == token.raw \in DOMAIN RegisterInstruction_CODES

\* line 77
ImmediateInstruction_CODES == (<<"m", "v", "i">> :> 1)

\* lines 82-86
ImmediateInstruction_try_parse(token) == token.raw \in DOMAIN ImmediateInstruction_CODES

\* line 92
Register_CODES ==
  (<<"R", "0">> :> 0) @@ (<<"R", "1">> :> 1) @@ (<<"R", "2">> :> 2) @@
  (<<"R", "3">> :> 3) @@ (<<"R", "4">> :> 4) @@ (<<"R", "5">> :> 5) @@
  (<<"R", "6">> :> 6) @@ (<<"P", "C">> :> 7)

\* lines 97-101
Register_try_parse(token) == token.raw \in DOMAIN Register_CODES

\* lines 117-120: raw.startswith(":")
LabelReference_try_parse(token) == StartsWith(token.raw, <<":">>)

\* lines 122-123: raw[1:]
LabelReference_name(token) == SubSeq(token.raw, 2, Len(token.raw))

\* chr(ord("0") + k) for k = 0..9
DecimalDigits == <<"0", "1", "2", "3", "4", "5", "6", "7", "8", "9">>

\* lines 163-174: digit_values, for a base of at most 10
digit_values(base) ==
  [c \in {DecimalDigits[k + 1] : k \in 0..(base - 1)} |->
     CHOOSE k \in 0..(base - 1) : DecimalDigits[k + 1] = c]

\* line 185: the first value that does not fit the 9-bit word
LiteralLimit == 512

\* lines 179-190: the loop from index i down to 1, None on a bad character or
\* on a number of LiteralLimit or more
RECURSIVE str_to_int_loop(_, _, _, _, _)
str_to_int_loop(digits, base, i, number, power) ==
  IF i < 1 THEN Some(number)
  ELSE LET char == digits[i]
       IN  IF char = "_" THEN str_to_int_loop(digits, base, i - 1, number, power)
           ELSE IF char \in DOMAIN digit_values(base)
             THEN LET n == number + digit_values(base)[char] * power
                  IN  IF n >= LiteralLimit THEN None
                      ELSE str_to_int_loop(digits, base, i - 1, n, power * base)
           ELSE None

\* lines 158-190
str_to_int(digits, base) == str_to_int_loop(digits, base, Len(digits), 0, 1)

\* lines 140-156
Literal_value(raw) ==
  LET binary == StartsWith(raw, <<"0", "b">>)
      digits == IF binary THEN SubSeq(raw, 3, Len(raw)) ELSE raw
      base == IF binary THEN 2 ELSE 10
  IN  IF ~(Len(digits) > 0) THEN None ELSE str_to_int(digits, base)

\* lines 135-138
Literal_try_parse(token) == Literal_value(token.raw) # None

NoToken == [type |-> "None"]

\* a variant of lines 434-447 in which LabelReference is tried before
\* LabelDeclaration
classify_token_ReferenceFirst(token) ==
  IF Newline_try_parse(token) THEN Classified("Newline", token)
  ELSE IF LabelReference_try_parse(token) THEN Classified("LabelReference", token)
  ELSE IF LabelDeclaration_try_parse(token) THEN Classified("LabelDeclaration", token)
  ELSE IF RegisterInstruction_try_parse(token) THEN Classified("RegisterInstruction", token)
  ELSE IF ImmediateInstruction_try_parse(token) THEN Classified("ImmediateInstruction", token)
  ELSE IF Register_try_parse(token) THEN Classified("Register", token)
  ELSE IF Literal_try_parse(token) THEN Classified("Literal", token)
  ELSE NoToken

\* lines 434-447: the first class, in this order, whose try_parse accepts
classify_token(token) ==
  IF Newline_try_parse(token) THEN Classified("Newline", token)
  ELSE IF LabelDeclaration_try_parse(token) THEN Classified("LabelDeclaration", token)
  ELSE IF RegisterInstruction_try_parse(token) THEN Classified("RegisterInstruction", token)
  ELSE IF ImmediateInstruction_try_parse(token) THEN Classified("ImmediateInstruction", token)
  ELSE IF Register_try_parse(token) THEN Classified("Register", token)
  ELSE IF LabelReference_try_parse(token) THEN Classified("LabelReference", token)
  ELSE IF Literal_try_parse(token) THEN Classified("Literal", token)
  ELSE NoToken

\* the classes in the order of lines 435-441
token_types ==
  <<"Newline", "LabelDeclaration", "RegisterInstruction", "ImmediateInstruction",
    "Register", "LabelReference", "Literal">>

\* try_parse of the class named type: lines 26-29, 38-41, 65-69, 82-86, 97-101,
\* 117-120, 135-138
try_parse(type, token) ==
  CASE type = "Newline" -> Newline_try_parse(token)
    [] type = "LabelDeclaration" -> LabelDeclaration_try_parse(token)
    [] type = "RegisterInstruction" -> RegisterInstruction_try_parse(token)
    [] type = "ImmediateInstruction" -> ImmediateInstruction_try_parse(token)
    [] type = "Register" -> Register_try_parse(token)
    [] type = "LabelReference" -> LabelReference_try_parse(token)
    [] type = "Literal" -> Literal_try_parse(token)

\* isinstance(token, NumericValue): lines 106-131
IsNumericValue(token) == token.type \in {"LabelReference", "Literal"}

\* bit_count: lines 53-54 (Instruction and its subclasses), 110-111 and 128-129
bit_count(token) == IF IsNumericValue(token) THEN 9 ELSE 3

\* numeric_value: lines 56-57 with the CODES of the token's class, lines 192-193
numeric_value(token) ==
  CASE token.type = "RegisterInstruction" -> RegisterInstruction_CODES[token.raw]
    [] token.type = "ImmediateInstruction" -> ImmediateInstruction_CODES[token.raw]
    [] token.type = "Register" -> Register_CODES[token.raw]
    [] token.type = "Literal" -> Literal_value(token.raw)[1]

(***************************************************************************)
(* Program constants of the two orchestrators.                             *)
(***************************************************************************)
first_init_ram_position == 1217
lines == 4
hex_digits == 72
word_size == 9
stdout_word_size == 9

\* line 820
line_size == (hex_digits * 4) \div word_size

\* chr(ord("A") + k) for k = 0..5
UpperHexLetters == <<"A", "B", "C", "D", "E", "F">>

\* lines 692-695
int_to_hex_char(number) ==
  IF number < 10 THEN DecimalDigits[number + 1]
  ELSE UpperHexLetters[(number - 10) + 1]

\* the digits of n >= 0 in the base, most significant first
RECURSIVE FormatInt(_, _)
FormatInt(n, base) ==
  IF n < base THEN <<int_to_hex_char(n)>>
  ELSE Append(FormatInt(n \div base, base), int_to_hex_char(n % base))

\* "{:02X}".format(n)
Format02X(n) ==
  LET d == FormatInt(n, 16) IN IF Len(d) < 2 THEN <<"0">> \o d ELSE d

\* lines 788-789 and 832: prefix.format(line_index)
prefix(line_index) ==
  <<"d", "e", "f", "p", "a", "r", "a", "m", " ", "s", "p", "x", "9", "_", "i",
    "n", "s", "t", "_", "0", ".", "I", "N", "I", "T", "_", "R", "A", "M", "_">>
  \o Format02X(line_index) \o <<" ", "=", " ">>
  \o FormatInt(hex_digits * 4, 10) \o <<"'", "h">>

\* line 790
suffix == <<";", LF>>

\* line 836
footer ==
  <<LF, "e", "n", "d", "m", "o", "d", "u", "l", "e", " ", "/", "/", "S", "R",
    "A", "M", LF>>

(***************************************************************************)
(* Exceptions.  A raise ends what was running: every operation that        *)
(* follows in the call is skipped, and the orchestrator ends with no       *)
(* return value.                                                           *)
(***************************************************************************)
Raise(m, exception) == [m EXCEPT !.raised = Some(exception)]
Raised(m) == m.raised # None

(***************************************************************************)
(* The destination file (line 793 and lines 796-797): a text file opened   *)
(* "r+" with encoding utf_8 and universal newlines.  content[i] is the     *)
(* byte at position first_init_ram_position + i - 1, pos is the file       *)
(* position in bytes, writes counts the calls of write().  A byte below    *)
(* 128 is the one-character string of its ASCII character; LeadByte and    *)
(* ContinuationByte are the two bytes 0xC3 0xA9 of the character EAcute    *)
(* (U+00E9), the one character outside ASCII that is modelled.  The file   *)
(* is shorter than the chunk readline() decodes at a time.                 *)
(***************************************************************************)
LeadByte == "0xC3"
ContinuationByte == "0xA9"
EAcute == "U+00E9"

\* chars.encode("utf_8"); "\n" is written as it is (os.linesep is "\n")
RECURSIVE Encode(_)
Encode(chars) ==
  IF chars = <<>> THEN <<>>
  ELSE (IF Head(chars) = EAcute THEN <<LeadByte, ContinuationByte>>
        ELSE <<Head(chars)>>) \o Encode(Tail(chars))

\* the bytes are UTF-8 text; when more bytes may follow, a lead byte at the
\* end waits for its continuation
Decodable(bytes, final) ==
  \A i \in 1..Len(bytes) :
    /\ bytes[i] = LeadByte =>
         IF i = Len(bytes) THEN ~final ELSE bytes[i + 1] = ContinuationByte
    /\ bytes[i] = ContinuationByte => (i > 1 /\ bytes[i - 1] = LeadByte)

\* the characters of bytes that are UTF-8 text
Decode(bytes) ==
  LET starts == SelectSeq(bytes, LAMBDA b : b # ContinuationByte)
  IN  [i \in 1..Len(starts) |-> IF starts[i] = LeadByte THEN EAcute ELSE starts[i]]

FileSeek(f, position) == [f EXCEPT !.pos = position]

\* write(chars) at the file position, over the bytes that are there
FileWrite(f, chars) ==
  LET off == f.pos - first_init_ram_position
      bytes == Encode(chars)
      n == Len(bytes)
  IN  [f EXCEPT !.content = SubSeq(f.content, 1, off) \o bytes
                            \o SubSeq(f.content, off + n + 1, Len(f.content)),
                !.pos = f.pos + n,
                !.writes = f.writes + 1]

\* readline() at the file position: the rest of the file is decoded, the
\* line ends at the first "\n", "\r\n" or "\r", which is returned as "\n",
\* or at the end of the file; error: UnicodeDecodeError was raised.  A "\r"
\* that is the last character decoded is held back until it is known whether
\* "\n" follows, so a line that ends at it is read on to the end of the file,
\* as a line without a line end is: the decoder is then closed, and a lead
\* byte that waits for its continuation is an error.
ReadLine(f) ==
  LET off == f.pos - first_init_ram_position
      rest == SubSeq(f.content, off + 1, Len(f.content))
      ends == {i \in 1..Len(rest) : rest[i] \in {LF, CR}}
      end == CHOOSE i \in ends : \A j \in ends : i <= j
      taken == IF ends = {} THEN Len(rest)
               ELSE IF rest[end] = CR /\ end < Len(rest) /\ rest[end + 1] = LF
                 THEN end + 1
               ELSE end
      line == IF ends = {} THEN Decode(rest)
              ELSE Append(Decode(SubSeq(rest, 1, end - 1)), LF)
      final == ends = {} \/ (rest[end] = CR /\ end >= Len(rest) - 1)
  IN  IF ~Decodable(rest, final)
        THEN [error |-> TRUE, line |-> <<>>, file |-> f]
        ELSE [error |-> FALSE, line |-> line,
              file |-> [f EXCEPT !.pos = @ + taken]]

(***************************************************************************)
(* The machine m: the record of everything a parse and the orchestrator    *)
(* read and write (the variables of the same names).                       *)
(***************************************************************************)

(***************************************************************************)
(* Writers (lines 590-703).                                                *)
(***************************************************************************)
Writer == [kind |-> "Writer"]
WordCounter == [kind |-> "WordCounter", written_words |-> 0]
TextIOWriter == [kind |-> "TextIOWriter"]

\* lines 621-634
SRAMvWriter(w_size, words_in_buffer) ==
  [kind |-> "SRAMvWriter", word_size |-> w_size,
   buffer |-> Repeat(0, w_size * words_in_buffer),
   buffer_index |-> w_size * words_in_buffer - w_size,
   written_words |-> 0]

\* lines 633-634
max_index(wr) == Len(wr.buffer) - wr.word_size

\* lines 686-687
written_buffers(wr) == wr.written_words \div (Len(wr.buffer) \div wr.word_size)

\* lines 612-615: one write() per bit, then the newline
TextIOWriter_write_word(m, word) ==
  [m EXCEPT !.stdout = @ \o [i \in 1..Len(word) |-> DecimalDigits[word[i] + 1]]
                         \o <<LF>>]

\* a variant of lines 674-680 in which the first bit of a group weighs least
hex_group_LeastSignificantFirst(buffer, i) ==
  int_to_hex_char(buffer[i + 1] + buffer[i + 2] * 2
                  + buffer[i + 3] * 4 + buffer[i + 4] * 8)

\* lines 674-680: the hexadecimal digit of buffer[i .. i+3], i counted from 0
hex_group(buffer, i) ==
  int_to_hex_char(buffer[i + 1] * 8 + buffer[i + 2] * 4
                  + buffer[i + 3] * 2 + buffer[i + 4])

\* one write() call per character of chars
FileWriteEach(f, chars) ==
  [FileWrite(f, chars) EXCEPT !.writes = f.writes + Len(chars)]

\* lines 673-681 once the whole groups of four bits are written: the group
\* of the bits that are left, if any, then __end_line
end_groups(m) ==
  IF Len(m.writer.buffer) % 4 # 0 THEN Raise(m, "IndexError")
  ELSE [m EXCEPT !.file = FileWrite(@, suffix)]

\* lines 668-698: __flush_buffer with __start_line and __end_line; each
\* hexadecimal digit is one write() call.  The loop starts a group at every
\* fourth index below the length: the group that starts less than four bits
\* before the end of the buffer reads buffer[length] (line 678), which raises
\* IndexError before its digit and the suffix are written.
flush_buffer(m) ==
  LET buffer == m.writer.buffer
      f1 == FileWrite(m.file, prefix(written_buffers(m.writer)))
      f2 == FileWriteEach(f1, [g \in 1..(Len(buffer) \div 4) |->
                                 hex_group(buffer, (g - 1) * 4)])
  IN  end_groups([m EXCEPT !.file = f2])

\* lines 665-666, which a raise in __flush_buffer skips
count_word(m, index) ==
  IF Raised(m) THEN m
  ELSE [m EXCEPT !.writer.written_words = @ + 1, !.writer.buffer_index = index]

\* lines 648-666
SRAMvWriter_write_word(m, word) ==
  LET wr == m.writer
      index == wr.buffer_index
      \* buffer[index : index + word_size] = word
      buffer == SubSeq(wr.buffer, 1, index) \o word
                \o SubSeq(wr.buffer, index + wr.word_size + 1, Len(wr.buffer))
      m1 == [m EXCEPT !.writer.buffer = buffer]
      m2 == IF index <= 0 THEN flush_buffer(m1) ELSE m1
      index2 == IF index <= 0 THEN max_index(wr) ELSE index - wr.word_size
  IN  IF Len(word) # wr.word_size THEN Raise(m, "ValueError")
      ELSE count_word(m2, index2)

\* Writer.write_word of the writer's class: lines 592-593, 600-602, 612, 648
write_word(m, word) ==
  CASE m.writer.kind = "Writer" -> m
    [] m.writer.kind = "WordCounter" -> [m EXCEPT !.writer.written_words = @ + 1]
    [] m.writer.kind = "TextIOWriter" -> TextIOWriter_write_word(m, word)
    [] m.writer.kind = "SRAMvWriter" -> SRAMvWriter_write_word(m, word)

\* lines 702-703: count more iterations of the loop, split in halves to keep
\* the evaluation shallow
RECURSIVE pad_loop(_, _)
pad_loop(m, count) ==
  IF m.writer.kind # "SRAMvWriter" \/ count <= 0 \/ Raised(m) THEN m
  ELSE IF count = 1 THEN write_word(m, Repeat(0, m.writer.word_size))
  ELSE pad_loop(pad_loop(m, count \div 2), count - (count \div 2))

\* a variant of lines 700-703 that stops one word early
pad_OneWordShort(m, total_words) ==
  pad_loop(m, total_words - m.writer.written_words - 1)

\* lines 700-703
pad(m, total_words) == pad_loop(m, total_words - m.writer.written_words)

(***************************************************************************)
(* Workers (lines 199-285).                                                *)
(***************************************************************************)
EmptyLabels == [name \in {} |-> 0]

\* lines 208-216
LabelLister ==
  [kind |-> "LabelLister", pending_labels |-> <<>>, labels |-> EmptyLabels,
   warnings |-> <<>>, memory_word_index |-> 0]

\* lines 242-250
Translator(table, w_size) ==
  [kind |-> "Translator", labels |-> table, errors |-> <<>>,
   buffer |-> Repeat(0, w_size), buffer_index |-> 0]

\* lines 202 and 218-219
add_pending_label(m, label) ==
  IF m.worker.kind = "LabelLister"
    THEN [m EXCEPT !.worker.pending_labels = Append(@, label)]
    ELSE m

\* lines 224-231: the loop over the pending labels from index i on
RECURSIVE bind_pending(_, _)
bind_pending(w, i) ==
  IF i > Len(w.pending_labels) THEN w
  ELSE LET label == w.pending_labels[i]
           name == LabelDeclaration_name(label)
           warned == IF name \in DOMAIN w.labels
                       THEN Append(w.warnings,
                              [name |-> name, line |-> label.line,
                               column |-> label.column])
                       ELSE w.warnings
       IN  bind_pending([w EXCEPT !.warnings = warned,
                                  !.labels = (name :> w.memory_word_index) @@ w.labels],
                        i + 1)

\* lines 221-233
LabelLister_flush_pending_labels(w) ==
  [bind_pending(w, 1) EXCEPT !.pending_labels = <<>>,
                             !.memory_word_index = w.memory_word_index + 1]

\* lines 203 and 221
flush_pending_labels(m) ==
  IF m.worker.kind = "LabelLister"
    THEN [m EXCEPT !.worker = LabelLister_flush_pending_labels(m.worker)]
    ELSE m

\* line 281, which a raise in write_word skips
set_buffer_index(m, index) ==
  IF Raised(m) THEN m ELSE [m EXCEPT !.worker.buffer_index = index]

\* lines 268-281
write_bit(m, bit) ==
  LET index == m.worker.buffer_index
      buffer == [m.worker.buffer EXCEPT ![index + 1] = bit % 2]
      m1 == [m EXCEPT !.worker.buffer = buffer]
  IN  IF index >= Len(buffer) - 1
        THEN set_buffer_index(
               write_word([m1 EXCEPT !.emitted = Append(@, buffer)], buffer), 0)
        ELSE [m1 EXCEPT !.worker.buffer_index = index + 1]

\* lines 264-266: the bits of number from position shift down to 0
RECURSIVE write_bits_from(_, _, _)
write_bits_from(m, number, shift) ==
  IF shift < 0 \/ Raised(m) THEN m
  ELSE write_bits_from(write_bit(m, (number \div Pow(2, shift)) % 2),
                       number, shift - 1)

write_number(m, number, bits) == write_bits_from(m, number, bits - 1)

\* lines 204 and 252-253
write(m, token) ==
  IF m.worker.kind = "Translator"
    THEN write_number(m, numeric_value(token), bit_count(token))
    ELSE m

\* a variant of lines 255-262 that writes address 0 for a name the table lacks
write_dereferenced_label_UnknownAsZero(m, label) ==
  IF m.worker.kind = "Translator"
    THEN LET name == LabelReference_name(label)
         IN  write_number(m, IF name \in DOMAIN m.worker.labels
                               THEN m.worker.labels[name] ELSE 0,
                          bit_count(label))
    ELSE m

\* a variant of lines 255-262 in which a name the table lacks ends the parse
\* with an error
write_dereferenced_label_UndeclaredAborts(m, label) ==
  IF m.worker.kind = "Translator"
    THEN LET name == LabelReference_name(label)
         IN  IF name \notin DOMAIN m.worker.labels
               THEN [m EXCEPT !.worker.errors =
                       Append(@, [name |-> name, line |-> label.line,
                                  column |-> label.column]),
                     !.perror =
                       Some([kind |-> "Unexpected", type |-> label.type,
                             raw |-> label.raw, line |-> label.line,
                             column |-> label.column])]
               ELSE write_number(m, m.worker.labels[name], bit_count(label))
    ELSE m

\* lines 205 and 255-262
write_dereferenced_label(m, label) ==
  IF m.worker.kind = "Translator"
    THEN LET name == LabelReference_name(label)
         IN  IF name \notin DOMAIN m.worker.labels
               THEN [m EXCEPT !.worker.errors =
                       Append(@, [name |-> name, line |-> label.line,
                                  column |-> label.column])]
               ELSE write_number(m, m.worker.labels[name], bit_count(label))
    ELSE m

(***************************************************************************)
(* Parser states (lines 288-412).  parse_token returns the machine with    *)
(* the error it returns in perror.                                         *)
(***************************************************************************)
Initial == [state |-> "Initial", substate |-> 0]
RegisterInstructionState == [state |-> "RegisterInstruction", substate |-> 0]
ImmediateInstructionState == [state |-> "ImmediateInstruction", substate |-> 0]
NumericValueState == [state |-> "NumericValue", substate |-> 0]

\* lines 291-293
error_unexpected(m, token) ==
  [m EXCEPT !.perror = Some([kind |-> "Unexpected", type |-> token.type,
                             raw |-> token.raw, line |-> token.line,
                             column |-> token.column])]

\* lines 309-320 and 397-403: a NumericValue token starts a data word
parse_value(m, token) ==
  LET m1 == flush_pending_labels([m EXCEPT !.parser = NumericValueState])
  IN  IF token.type = "LabelReference"
        THEN write_dereferenced_label(m1, token)
        ELSE write(m1, token)

\* lines 295-322
Initial_parse_token(m, token) ==
  CASE token.type = "Newline" -> m
    [] token.type = "LabelDeclaration" -> add_pending_label(m, token)
    [] token.type = "RegisterInstruction" ->
         write([m EXCEPT !.parser = RegisterInstructionState], token)
    [] token.type = "ImmediateInstruction" ->
         write([m EXCEPT !.parser = ImmediateInstructionState], token)
    [] IsNumericValue(token) -> parse_value(m, token)
    [] OTHER -> error_unexpected(m, token)

\* lines 339-343
parse_1st_register(m, token) ==
  IF token.type # "Register" THEN error_unexpected(m, token)
  ELSE write(m, token)

\* lines 345-350
parse_2nd_register(m, token) ==
  IF token.type # "Register" THEN error_unexpected(m, token)
  ELSE write(flush_pending_labels(m), token)

\* lines 352-356
RegisterInstruction_parse_newline(m, token) ==
  IF token.type # "Newline" THEN error_unexpected(m, token)
  ELSE [m EXCEPT !.parser = Initial]

\* lines 334-336 and 381: self.__substate += 1, which a raise before it skips
next_substate(m) ==
  IF Raised(m) THEN m ELSE [m EXCEPT !.parser.substate = @ + 1]

\* lines 328-337: the substate of this state object advances when the
\* operation returned no error (the object is dropped once ctx.state is set)
RegisterInstruction_parse_token(m, token) ==
  LET r == CASE m.parser.substate = 0 -> parse_1st_register(m, token)
             [] m.parser.substate = 1 -> parse_2nd_register(m, token)
             [] m.parser.substate = 2 -> RegisterInstruction_parse_newline(m, token)
  IN  IF r.perror # None \/ r.parser.state # "RegisterInstruction" THEN r
      ELSE next_substate(r)

\* line 379: next(iter(Register.CODES.keys()))
first_register_code == <<"R", "0">>

\* a variant of lines 372-382 that writes the register in both fields
parse_register_SecondFieldRepeated(m, token) ==
  IF token.type # "Register" THEN error_unexpected(m, token)
  ELSE [write(write(flush_pending_labels(m), token), token)
          EXCEPT !.parser.substate = @ + 1]

\* a variant of lines 372-382 that leaves the second register field unwritten
parse_register_SecondFieldOmitted(m, token) ==
  IF token.type # "Register" THEN error_unexpected(m, token)
  ELSE [write(flush_pending_labels(m), token) EXCEPT !.parser.substate = @ + 1]

\* lines 372-382
parse_register(m, token) ==
  IF token.type # "Register" THEN error_unexpected(m, token)
  ELSE LET m1 == write(flush_pending_labels(m), token)
           m2 == write(m1, Classified("Register",
                             Token(first_register_code, token.line, token.column)))
       IN  next_substate(m2)

\* lines 384-388
ImmediateInstruction_parse_newline(m, token) ==
  IF token.type # "Newline" THEN error_unexpected(m, token)
  ELSE [m EXCEPT !.parser.substate = @ + 1]

\* lines 390-405
parse_numeric_value(m, token) ==
  CASE token.type = "Newline" -> m
    [] token.type = "LabelDeclaration" -> add_pending_label(m, token)
    [] IsNumericValue(token) -> parse_value(m, token)
    [] OTHER -> error_unexpected(m, token)

\* lines 362-370
ImmediateInstruction_parse_token(m, token) ==
  CASE m.parser.substate = 0 -> parse_register(m, token)
    [] m.parser.substate = 1 -> ImmediateInstruction_parse_newline(m, token)
    [] m.parser.substate = 2 -> parse_numeric_value(m, token)

\* a variant of lines 408-412 that leaves the state before it tests the token
NumericValue_parse_token_StateReset(m, token) ==
  IF token.type # "Newline" THEN error_unexpected([m EXCEPT !.parser = Initial], token)
  ELSE [m EXCEPT !.parser = Initial]

\* lines 408-412
NumericValue_parse_token(m, token) ==
  IF token.type # "Newline" THEN error_unexpected(m, token)
  ELSE [m EXCEPT !.parser = Initial]

\* line 429: self.state.parse_token(self, token)
parse_token(m, token) ==
  CASE m.parser.state = "Initial" -> Initial_parse_token(m, token)
    [] m.parser.state = "RegisterInstruction" -> RegisterInstruction_parse_token(m, token)
    [] m.parser.state = "ImmediateInstruction" -> ImmediateInstruction_parse_token(m, token)
    [] m.parser.state = "NumericValue" -> NumericValue_parse_token(m, token)

\* lines 422-431: one iteration of the for loop of parse, on tokens[ti]
parse_step(m) ==
  LET unclassified_token == m.tokens[m.ti]
      token == classify_token(unclassified_token)
      m1 == [m EXCEPT !.ti = @ + 1]
  IN  IF token = NoToken
        THEN [m1 EXCEPT !.perror =
                Some([kind |-> "Unrecognized", type |-> "None",
                      raw |-> unclassified_token.raw,
                      line |-> unclassified_token.line,
                      column |-> unclassified_token.column])]
        ELSE parse_token(m1, token)

\* the for loop has ended: no token is left, an iteration returned an error,
\* or an exception has left it
ParseEnded(m) == m.perror # None \/ m.ti > Len(m.tokens) \/ Raised(m)

\* n more iterations of the for loop, fewer when the loop ends before
RECURSIVE parse_steps(_, _)
parse_steps(m, n) ==
  IF n <= 0 \/ ParseEnded(m) THEN m
  ELSE IF n = 1 THEN parse_step(m)
  ELSE parse_steps(parse_steps(m, n \div 2), n - (n \div 2))

\* lines 415-432: the for loop of parse to its end
parse_loop(m) == parse_steps(m, Len(m.tokens))

\* lines 416-420 with the Worker (and its Writer) the Assembler made
begin_parse(m, w, wr) ==
  [m EXCEPT !.worker = w, !.writer = wr, !.parser = Initial,
            !.tokens = Tokenize(m.source), !.ti = 1, !.perror = None,
            !.emitted = <<>>]

(***************************************************************************)
(* Assembler and the orchestrators (lines 705-849).  print(...) appends    *)
(* the format string of the message to stdout.                             *)
(***************************************************************************)
MsgNoFile == "File '{target_path}' does not exist."
MsgBadPrefix == "Error: Line '{line}' in file '{target_path}' does not start with '{formatted_prefix}'."
MsgBadSuffix == "Error: Line '{line}' in file '{target_path}' does not end with '{suffix}'."
MsgBadDigits == "Error: Line '{line}' in file '{target_path}' does not contain exactly '{hex_digits}' hexadecimal digits."
MsgUnrecognized == "Error: Unrecognized token '{}' in line {}, column {}."
MsgUnexpected == "Error: Unexpected {} in line {}, column {}."
MsgRedeclared == "Warning: Label '{}' redeclared in line {}, column {}."
MsgUndeclared == "Error: Undeclared label '{}' referenced in line {}, column {}."
MsgTooLong == "Error: Assembled source code needs {counted_words}x{w_s}-bit words ({counted_words*w_s} bits) bits but SRAM.v capacity is only {word_limit}x{w_s}-bit words ({word_limit*w_s} bits)."

NoWorker == [kind |-> "Worker"]
NoWriter == [kind |-> "None"]
NoFile == [exists |-> FALSE, content |-> <<>>, pos |-> 0, writes |-> 0]

\* line 822 and line 841: the word size the Assembler is made with
AssemblerWordSize(m) == IF m.mode = "patch" THEN word_size ELSE stdout_word_size

Return(m, code) == [m EXCEPT !.ret = Some(code), !.pc = "done"]

\* the exception leaves the orchestrator, which returns nothing; the with
\* statement of line 796 closes the file with what was written
Abandon(m) == [m EXCEPT !.pc = "done"]
print_line(m, msg) == [m EXCEPT !.stdout = Append(@, msg)]

\* a variant of lines 803-818 that does not count the hexadecimal digits
check_line_DigitsNotCounted(line, formatted_prefix) ==
  IF ~StartsWith(line, formatted_prefix) THEN [code |-> -2, msg |-> MsgBadPrefix]
  ELSE IF ~EndsWith(line, suffix) THEN [code |-> -3, msg |-> MsgBadSuffix]
  ELSE [code |-> 0, msg |-> ""]

\* lines 803-818: the three tests of a line; code 0 when it passes them
check_line(line, formatted_prefix) ==
  IF ~StartsWith(line, formatted_prefix) THEN [code |-> -2, msg |-> MsgBadPrefix]
  ELSE IF ~EndsWith(line, suffix) THEN [code |-> -3, msg |-> MsgBadSuffix]
  ELSE IF Len(line) - Len(suffix) - Len(formatted_prefix) # hex_digits
    THEN [code |-> -4, msg |-> MsgBadDigits]
  ELSE [code |-> 0, msg |-> ""]

\* lines 799-818: the loop from line_index on; code 0 when every line passes
RECURSIVE check_lines(_, _)
check_lines(f, line_index) ==
  IF line_index >= lines THEN [file |-> f, code |-> 0, msg |-> "", error |-> FALSE]
  ELSE LET read == ReadLine(f)
           chk == check_line(read.line, prefix(line_index))
       IN  IF read.error
             THEN [file |-> f, code |-> 0, msg |-> "", error |-> TRUE]
           ELSE IF chk.code # 0
             THEN [file |-> read.file, code |-> chk.code, msg |-> chk.msg,
                   error |-> FALSE]
           ELSE check_lines(read.file, line_index + 1)

\* lines 714-716: pass 1 begins
begin_pass1(m) == [begin_parse(m, LabelLister, NoWriter) EXCEPT !.pc = "pass1"]

\* lines 792-823 up to the parse of pass 1
sram_v_start(m) ==
  IF ~m.file.exists THEN Return(print_line(m, MsgNoFile), -1)
  ELSE LET chk == check_lines(FileSeek(m.file, first_init_ram_position), 0)
           m1 == [m EXCEPT !.file = chk.file]
       IN  IF chk.error THEN Abandon(Raise(m1, "UnicodeDecodeError"))
           ELSE IF chk.code # 0 THEN Return(print_line(m1, chk.msg), chk.code)
           ELSE begin_pass1(m1)

\* lines 841-842 up to the parse of pass 1
stdout_start(m) == begin_pass1(m)

\* a variant of lines 717-726 in which a parse that ends inside a construct is
\* an error
end_pass1_OpenConstructRejected(m) ==
  IF m.perror # None \/ m.parser.state # "Initial"
    THEN Return(print_line(m, IF m.perror # None /\ m.perror[1].kind = "Unrecognized"
                           THEN MsgUnrecognized ELSE MsgUnexpected),
                IF m.mode = "patch" THEN -5 ELSE -1)
    ELSE LET m1 == [m EXCEPT
                      !.stdout = @ \o [i \in 1..Len(m.worker.warnings) |-> MsgRedeclared],
                      !.labels = m.worker.labels]
         IN  [begin_parse(m1, Translator(m1.labels, AssemblerWordSize(m1)), Writer)
                EXCEPT !.pc = "pass2"]

\* lines 717-726 after the parse of pass 1, the caller's test (lines 823-824,
\* 842-843), and lines 729-731 up to the parse of pass 2
end_pass1(m) ==
  IF Raised(m) THEN Abandon(m)
  ELSE IF m.perror # None
    THEN Return(print_line(m, IF m.perror[1].kind = "Unrecognized"
                           THEN MsgUnrecognized ELSE MsgUnexpected),
                IF m.mode = "patch" THEN -5 ELSE -1)
    ELSE LET m1 == [m EXCEPT
                      !.stdout = @ \o [i \in 1..Len(m.worker.warnings) |-> MsgRedeclared],
                      !.labels = m.worker.labels]
         IN  [begin_parse(m1, Translator(m1.labels, AssemblerWordSize(m1)), Writer)
                EXCEPT !.pc = "pass2"]

\* a variant of lines 735-743 that goes on to the next pass whatever the
\* Translator recorded
end_pass2_ErrorsIgnored(m) ==
  IF m.mode = "patch"
    THEN [begin_parse(m, Translator(m.labels, AssemblerWordSize(m)), WordCounter)
            EXCEPT !.pc = "pass3"]
    ELSE [begin_parse(m, Translator(m.labels, AssemblerWordSize(m)), TextIOWriter)
            EXCEPT !.pc = "output"]

\* lines 735-743 after the parse of pass 2, the caller's test (lines 825-826,
\* 844-845), and the start of the next parse (lines 746-749, or 847 and 763-766)
end_pass2(m) ==
  IF Raised(m) THEN Abandon(m)
  ELSE IF Len(m.worker.errors) > 0
    THEN Return([m EXCEPT !.stdout =
                   @ \o [i \in 1..Len(m.worker.errors) |-> MsgUndeclared]],
                IF m.mode = "patch" THEN -6 ELSE -2)
    ELSE IF m.mode = "patch"
      THEN [begin_parse(m, Translator(m.labels, AssemblerWordSize(m)), WordCounter)
              EXCEPT !.pc = "pass3"]
      ELSE [begin_parse(m, Translator(m.labels, AssemblerWordSize(m)), TextIOWriter)
              EXCEPT !.pc = "output"]

\* a variant of lines 751-760 that also refuses a program of exactly word_limit words
code_too_long_AtLimit(counted_words, word_limit) == counted_words >= word_limit

\* line 753
code_too_long(counted_words, word_limit) == counted_words > word_limit

\* lines 751-760 after the parse of pass 3, the caller's test (lines 827-828),
\* and lines 830-834 up to the parse of the final pass
end_pass3(m) ==
  IF Raised(m) THEN Abandon(m)
  ELSE IF code_too_long(m.writer.written_words, lines * line_size)
    THEN Return(print_line(m, MsgTooLong), -7)
    ELSE LET m1 == [m EXCEPT !.file = FileSeek(@, first_init_ram_position)]
         IN  [begin_parse(m1, Translator(m1.labels, AssemblerWordSize(m1)),
                          SRAMvWriter(word_size, line_size))
                EXCEPT !.pc = "output"]

\* lines 836-838, which a raise in pad skips
write_footer(m) ==
  IF Raised(m) THEN Abandon(m)
  ELSE Return([m EXCEPT !.file = FileWrite(@, footer)], 0)

\* lines 835-838 after the final parse, and lines 847-849
end_output(m) ==
  IF Raised(m) THEN Abandon(m)
  ELSE IF m.mode = "patch"
    THEN write_footer(pad(m, line_size * lines))
    ELSE Return(m, 0)

(***************************************************************************)
(* The inputs.  A source is a concatenation of at most MaxFragments        *)
(* fragments of assembly text; a long source is FillerLines(n) followed by *)
(* at most MaxTail fragments.                                              *)
(***************************************************************************)
MaxFragments == 2
MaxTail == 2
MaxLexLen == 4

\* a register instruction line
FragRegister == <<"s", "u", "b", " ", "R", "1", " ", "P", "C", LF>>
\* a register instruction that lacks its second operand
FragOpenRegister == <<"s", "u", "b", " ", "R", "1", " ">>
\* the first line of an immediate instruction
FragImmediate == <<"m", "v", "i", " ", "R", "2", LF>>
\* a declaration of label a
FragDeclareA == <<"a", ":", " ">>
\* a declaration of label a and a data word
FragDeclareAWord == <<"a", ":", " ", "5", LF>>
\* a declaration of label b
FragDeclareB == <<"b", ":", " ">>
\* a reference to label a
FragReferA == <<":", "a", LF>>
\* a data word
FragLiteral == <<"5", LF>>
\* text of no token class
FragUnrecognized == <<"5", "1", "2", " ">>
\* a carriage return
FragCR == <<CR>>
\* a comment line
FragComment == <<";", "c", " ", LF>>
\* a space
FragSpace == <<" ">>

Fragments ==
  {FragRegister, FragOpenRegister, FragImmediate, FragDeclareA, FragDeclareAWord, FragDeclareB, FragReferA, FragLiteral, FragUnrecognized, FragCR, FragComment,
   FragSpace}

RECURSIVE Flatten(_)
Flatten(ss) == IF ss = <<>> THEN <<>> ELSE Head(ss) \o Flatten(Tail(ss))

FragmentSources(n) == {Flatten(ss) : ss \in UNION {[1..k -> Fragments] : k \in 0..n}}

\* n lines "0", each one data word
FillerLines(n) == [i \in 1..(2 * n) |-> IF i % 2 = 1 THEN "0" ELSE LF]

\* the word capacity of the destination: line 827
Capacity == lines * line_size

\* programs in which the value of an immediate instruction is the address of
\* a label: declared after the reference, between the instruction and the
\* reference, and before the instruction, at address 0 and above
ProgramForwardReference ==
  Flatten(<<FragImmediate, FragReferA, FragDeclareAWord>>)
ProgramDeclaredAtValue == Flatten(<<FragImmediate, FragDeclareA, FragReferA>>)
ProgramBackwardReference ==
  Flatten(<<FragLiteral, FragDeclareA, FragImmediate, FragReferA>>)
ProgramReferenceToStart == Flatten(<<FragDeclareAWord, FragImmediate, FragReferA>>)
\* an immediate instruction with a label, a register instruction and an
\* immediate instruction with a literal
ProgramOfEachInstruction ==
  Flatten(<<FragImmediate, FragReferA, FragDeclareAWord, FragRegister,
            FragImmediate, FragLiteral>>)

ReferencePrograms ==
  {ProgramForwardReference, ProgramDeclaredAtValue, ProgramBackwardReference,
   ProgramReferenceToStart, ProgramOfEachInstruction}

Sources == FragmentSources(MaxFragments) \cup ReferencePrograms

\* the bytes of a destination line of the expected form, and of the lines
\* that differ from it: in the prefix, the suffix or the number of digits;
\* with the characters EAcute where the digits are ("wide"); ending in
\* "\r\n" ("crlf"); with a "\r" among the digits ("cr"); with a byte that is
\* not UTF-8 text among the digits ("broken"); ending in "\r", the file
\* ending after it with a lead byte alone ("held")
GoodLine(k) == prefix(k) \o Repeat("F", hex_digits) \o suffix
DestLine(k, kind) ==
  CASE kind = "good" -> GoodLine(k)
    [] kind = "prefix" -> prefix(k + 1) \o Repeat("F", hex_digits) \o suffix
    [] kind = "suffix" -> prefix(k) \o Repeat("F", hex_digits) \o <<":", LF>>
    [] kind = "short" -> prefix(k) \o Repeat("F", hex_digits - 1) \o suffix
    [] kind = "long" -> prefix(k) \o Repeat("F", hex_digits + 1) \o suffix
    [] kind = "cut" -> <<>>
    [] kind = "wide" -> prefix(k) \o Encode(Repeat(EAcute, hex_digits)) \o suffix
    [] kind = "crlf" -> prefix(k) \o Repeat("F", hex_digits) \o <<";", CR, LF>>
    [] kind = "cr" -> prefix(k) \o Repeat("F", hex_digits \div 2) \o <<CR>>
                      \o Repeat("F", hex_digits - (hex_digits \div 2) - 1) \o suffix
    [] kind = "broken" -> prefix(k) \o Repeat("F", hex_digits - 1)
                          \o <<ContinuationByte>> \o suffix
    [] kind = "held" -> prefix(k) \o Repeat("F", hex_digits) \o <<";", CR, LeadByte>>

LineKinds ==
  {"prefix", "suffix", "short", "long", "cut", "wide", "crlf", "cr", "broken",
   "held"}

\* the kinds of file that end with line k
EndingKinds == {"cut", "held"}

\* the file whose line k (from 0) is of the kind, the lines before it good;
\* a cut file ends before line k, a held file with it
DestContent(k, kind) ==
  Flatten([i \in 1..lines |->
             IF i - 1 < k THEN GoodLine(i - 1)
             ELSE IF i - 1 = k THEN DestLine(k, kind)
             ELSE IF kind \in EndingKinds THEN <<>> ELSE GoodLine(i - 1)])
  \o (IF kind \in EndingKinds THEN <<>> ELSE footer)

DestFile(k, kind) ==
  [exists |-> TRUE, content |-> DestContent(k, kind),
   pos |-> 0, writes |-> 0]

\* the file a destination d = [kind, k] names; kind "none": no such file
FileOf(d) == IF d.kind = "none" THEN NoFile ELSE DestFile(d.k, d.kind)

NoDest == [kind |-> "none", k |-> 0]
GoodDest == [kind |-> "good", k |-> 0]
BadDests == {[kind |-> kind, k |-> k] : kind \in LineKinds, k \in 0..(lines - 1)}
Dests == {GoodDest, NoDest} \cup BadDests

LexAlphabet == {"a", "b", " ", ";", CR, LF}
LexInputs == UNION {[1..k -> LexAlphabet] : k \in 0..MaxLexLen}

(***************************************************************************)
(* The state machine.                                                      *)
(***************************************************************************)
Cur ==
  [mode |-> mode, source |-> source, file |-> file, stdout |-> stdout,
   pc |-> pc, ret |-> ret, labels |-> labels, tokens |-> tokens, ti |-> ti,
   perror |-> perror, parser |-> parser, worker |-> worker,
   writer |-> writer, emitted |-> emitted, raised |-> raised]

Apply(m) ==
  /\ mode' = m.mode /\ source' = m.source /\ file' = m.file
  /\ stdout' = m.stdout /\ pc' = m.pc /\ ret' = m.ret /\ labels' = m.labels
  /\ tokens' = m.tokens /\ ti' = m.ti /\ perror' = m.perror
  /\ parser' = m.parser /\ worker' = m.worker /\ writer' = m.writer
  /\ emitted' = m.emitted /\ raised' = m.raised
  /\ UNCHANGED <<dest, lexer, lpos>>

\* the state when an orchestrator is called
InitWith(md, src, d) ==
  /\ mode = md /\ source = src /\ dest = d /\ file = FileOf(d)
  /\ stdout = <<>> /\ pc = "start" /\ ret = None /\ labels = EmptyLabels
  /\ tokens = <<>> /\ ti = 1 /\ perror = None /\ parser = Initial
  /\ worker = NoWorker /\ writer = NoWriter /\ emitted = <<>>
  /\ lexer = LexerInit /\ lpos = 0 /\ raised = None

\* the good file, no file, and a file whose last line is off in each way
FewDests ==
  {GoodDest, NoDest} \cup {[kind |-> kind, k |-> lines - 1] : kind \in LineKinds}

Init ==
  \/ \E src \in Sources, d \in FewDests : InitWith("patch", src, d)
  \/ \E src \in Sources : InitWith("dump", src, NoDest)

ParsePcs == {"pass1", "pass2", "pass3", "output"}

\* assemble_to_sram_v_file is called: lines 776-823
StartPatch == pc = "start" /\ mode = "patch" /\ Apply(sram_v_start(Cur))

\* assemble_to_stdout is called: lines 840-842
StartDump == pc = "start" /\ mode = "dump" /\ Apply(stdout_start(Cur))

\* one iteration of the for loop of parse: lines 422-431
ParseToken == pc \in ParsePcs /\ ~ParseEnded(Cur) /\ Apply(parse_step(Cur))

EndPass1 == pc = "pass1" /\ ParseEnded(Cur) /\ Apply(end_pass1(Cur))
EndPass2 == pc = "pass2" /\ ParseEnded(Cur) /\ Apply(end_pass2(Cur))
EndPass3 == pc = "pass3" /\ ParseEnded(Cur) /\ Apply(end_pass3(Cur))
EndOutput == pc = "output" /\ ParseEnded(Cur) /\ Apply(end_output(Cur))

Next ==
  \/ StartPatch
  \/ StartDump
  \/ ParseToken
  \/ EndPass1
  \/ EndPass2
  \/ EndPass3
  \/ EndOutput

Spec == Init /\ [][Next]_vars

(***************************************************************************)
(* The same orchestrators with each pass as one step, on long sources.     *)
(***************************************************************************)
LongFragments == {FragDeclareAWord, FragReferA, FragLiteral}

LongTails == {Flatten(ss) : ss \in UNION {[1..k -> LongFragments] : k \in 0..MaxTail}}

\* sources of about as many words as the destination holds
FullSources == {FillerLines(n) \o t : n \in {Capacity - 1, Capacity}, t \in LongTails}

\* sources of more words than a word can count
HugeSources == {FillerLines(LiteralLimit) \o t : t \in LongTails}

\* every destination on the empty source and the sources of one fragment
InitRuns ==
  \/ \E src \in {<<>>} \cup Fragments, d \in Dests : InitWith("patch", src, d)
  \/ \E src \in FragmentSources(MaxTail) \cup FullSources :
       InitWith("patch", src, GoodDest)
  \/ \E src \in FragmentSources(MaxTail) \cup HugeSources :
       InitWith("dump", src, NoDest)

RunPass1 == pc = "pass1" /\ Apply(end_pass1(parse_loop(Cur)))
RunPass2 == pc = "pass2" /\ Apply(end_pass2(parse_loop(Cur)))
RunPass3 == pc = "pass3" /\ Apply(end_pass3(parse_loop(Cur)))
RunOutput == pc = "output" /\ Apply(end_output(parse_loop(Cur)))

NextRuns ==
  \/ StartPatch
  \/ StartDump
  \/ RunPass1
  \/ RunPass2
  \/ RunPass3
  \/ RunOutput

SpecRuns == InitRuns /\ [][NextRuns]_vars

(***************************************************************************)
(* The tokenizer alone, one character per step.                            *)
(***************************************************************************)
InitLex ==
  /\ mode = "lex" /\ source \in LexInputs /\ dest = NoDest /\ file = NoFile
  /\ stdout = <<>> /\ pc = "lexing" /\ ret = None /\ labels = EmptyLabels
  /\ tokens = <<>> /\ ti = 1 /\ perror = None /\ parser = Initial
  /\ worker = NoWorker /\ writer = NoWriter /\ emitted = <<>>
  /\ lexer = LexerInit /\ lpos = 0 /\ raised = None

LexUnchanged ==
  UNCHANGED <<mode, source, dest, file, stdout, ret, labels, tokens, ti, perror,
              parser, worker, writer, emitted, raised>>

\* the points at which an iteration that ends with the local variables ls
\* hands control to the consumer or reads again: its yields, then its end
LexPoints(ls) == ls.yields \o <<[ls EXCEPT !.yields = <<>>]>>

\* the generator runs to the first of the points; lexer.yields keeps the
\* points that follow it in the iteration
LexRunTo(points) == [Head(points) EXCEPT !.yields = Tail(points)]

\* the generator is at the top of the while loop, not suspended in a yield
LexAtLoopTop == lexer.yields = <<>>

\* lines 491 and 510-588: a character is read and handled, up to the first
\* yield of the iteration or, when it has none, to the end of the iteration
LexRead ==
  /\ pc = "lexing" /\ LexAtLoopTop /\ lpos < Len(source)
  /\ lexer' = LexRunTo(LexPoints(LexChar(lexer, source[lpos + 1])))
  /\ lpos' = lpos + 1
  /\ pc' = pc
  /\ LexUnchanged

\* the consumer asks for the next token: the generator resumes after the
\* yield it is suspended in and runs to the next yield of the iteration or
\* to its end; after the yield of lines 492-508 it returns
LexResume ==
  /\ pc \in {"lexing", "ending"} /\ ~LexAtLoopTop
  /\ lexer' = LexRunTo(lexer.yields)
  /\ pc' = IF pc = "ending" /\ Len(lexer.yields) = 1 THEN "done" ELSE pc
  /\ lpos' = lpos
  /\ LexUnchanged

\* lines 491-508: read(1) returns nothing; the generator yields the token
\* that is due, if any, and returns when it is resumed
LexEnd ==
  /\ pc = "lexing" /\ LexAtLoopTop /\ lpos = Len(source)
  /\ LET points == LexPoints(LexEOF(lexer))
     IN  /\ lexer' = LexRunTo(points)
         /\ pc' = IF Len(points) = 1 THEN "done" ELSE "ending"
  /\ lpos' = lpos
  /\ LexUnchanged

NextLex ==
  \/ LexRead
  \/ LexResume
  \/ LexEnd

SpecLex == InitLex /\ [][NextLex]_vars

(***************************************************************************)
(* assemble_to_stdout on every sequence of at most MaxTokens tokens, each  *)
(* of one class, a token per step: every parser state meets every class.   *)
(***************************************************************************)
MaxTokens == 4

\* a token of each class with the space or the line end that ends it
TokenTexts ==
  {<<LF>>,
   <<"a", ":", " ">>,
   <<"s", "u", "b", " ">>,
   <<"m", "v", "i", " ">>,
   <<"R", "1", " ">>,
   <<":", "a", " ">>,
   <<"5", " ">>}

TokenSources == {Flatten(ss) : ss \in UNION {[1..k -> TokenTexts] : k \in 0..MaxTokens}}

InitParse == \E src \in TokenSources : InitWith("dump", src, NoDest)

NextParse ==
  \/ StartDump
  \/ ParseToken
  \/ EndPass1
  \/ EndPass2
  \/ EndOutput

SpecParse == InitParse /\ [][NextParse]_vars

(***************************************************************************)
(* The classifier alone on one raw token text: each try_parse is called,   *)
(* then __classify_token, then numeric_value of the classified token.      *)
(***************************************************************************)
MaxRawLen == 3

RawAlphabet == {"0", "1", "2", "5", "_", "b", ":", "R"}

\* the operation and register names, the Newline, and literals at the limits
\* of the word
NamedRaws ==
  DOMAIN RegisterInstruction_CODES \cup DOMAIN ImmediateInstruction_CODES
  \cup DOMAIN Register_CODES
  \cup {<<LF>>,
        <<"0", "b">> \o Repeat("1", word_size),
        <<"0", "b", "1">> \o Repeat("0", word_size),
        <<"0", "b", "_">> \o Repeat("1", word_size),
        <<"0", "b", "2">> \o Repeat("1", word_size - 1)}

RawTexts == UNION {[1..k -> RawAlphabet] : k \in 1..MaxRawLen} \cup NamedRaws

InitTok ==
  /\ mode = "classify" /\ source \in RawTexts /\ dest = NoDest /\ file = NoFile
  /\ stdout = <<>> /\ pc = "raw" /\ ret = None /\ labels = EmptyLabels
  /\ tokens = <<>> /\ ti = 1 /\ perror = None /\ parser = Initial
  /\ worker = NoWorker /\ writer = NoWriter /\ emitted = <<>>
  /\ lexer = LexerInit /\ lpos = 0 /\ raised = None

\* the raw token of the text in source
RawToken == Token(source, 1, 1)

\* try_parse of the next class is called on the raw token; ti counts the
\* classes tried and emitted lists the classes that accept
TryParse ==
  /\ pc = "raw" /\ ti <= Len(token_types)
  /\ emitted' = IF try_parse(token_types[ti], RawToken)
                 THEN Append(emitted, token_types[ti]) ELSE emitted
  /\ ti' = ti + 1
  /\ UNCHANGED <<mode, source, dest, file, stdout, pc, ret, labels, tokens,
                 perror, parser, worker, writer, lexer, lpos, raised>>

\* lines 434-447: the raw token is classified
ClassifyToken ==
  /\ pc = "raw" /\ ti > Len(token_types)
  /\ tokens' = <<classify_token(RawToken)>>
  /\ pc' = "classified"
  /\ UNCHANGED <<mode, source, dest, file, stdout, ret, labels, ti, perror,
                 parser, worker, writer, emitted, lexer, lpos, raised>>

\* numeric_value of a token that has one (a LabelReference has none)
ReadNumericValue ==
  /\ pc = "classified"
  /\ tokens[1].type \in {"RegisterInstruction", "ImmediateInstruction",
                         "Register", "Literal"}
  /\ ret' = Some(numeric_value(tokens[1]))
  /\ pc' = "done"
  /\ UNCHANGED <<mode, source, dest, file, stdout, labels, tokens, ti, perror,
                 parser, worker, writer, emitted, lexer, lpos, raised>>

NextTok ==
  \/ TryParse
  \/ ClassifyToken
  \/ ReadNumericValue

SpecTok == InitTok /\ [][NextTok]_vars

(***************************************************************************)
(* Properties.  The token sequence of a pass is read here by the grammar   *)
(* of the language alone: which tokens complete a word, and which value a  *)
(* word of bits holds.                                                     *)
(***************************************************************************)
TokenRaws(out) == [i \in 1..Len(out) |-> out[i].raw]

TokenType(i) == classify_token(tokens[i]).type

\* token i ends a register instruction, an mvi header or a data word
CompletesWord(i) ==
  \/ TokenType(i) \in {"Literal", "LabelReference"}
  \/ /\ TokenType(i) = "Register"
     /\ i > 1
     /\ TokenType(i - 1) = "ImmediateInstruction"
  \/ /\ TokenType(i) = "Register"
     /\ i > 2
     /\ TokenType(i - 1) = "Register"
     /\ TokenType(i - 2) = "RegisterInstruction"

\* the number of words the tokens before token i complete
WordsBefore(i) == Cardinality({j \in 1..(i - 1) : CompletesWord(j)})

\* the bits of value v in a word of n bits, most significant bit first
WordOf(v, n) == [k \in 1..n |-> (v \div Pow(2, n - k)) % 2]

\* the value the bits of a word hold, most significant bit first
RECURSIVE WordValue(_)
WordValue(word) ==
  IF word = <<>> THEN 0
  ELSE 2 * WordValue(SubSeq(word, 1, Len(word) - 1)) + word[Len(word)]

IsDeclaration(i) == TokenType(i) = "LabelDeclaration"
IsReference(i) == TokenType(i) = "LabelReference"
DeclaredName(i) == LabelDeclaration_name(tokens[i])
ReferencedName(i) == LabelReference_name(tokens[i])

\* the declarations of the name in the token sequence
DeclarationsOf(name) ==
  {i \in 1..Len(tokens) : IsDeclaration(i) /\ DeclaredName(i) = name}

\* the names the source declares
DeclaredNames == {DeclaredName(i) : i \in {j \in 1..Len(tokens) : IsDeclaration(j)}}

\* a word is completed after token i
FollowedByWord(i) == \E j \in (i + 1)..Len(tokens) : CompletesWord(j)

SetMax(S) == CHOOSE x \in S : \A y \in S : y <= x
SetMin(S) == CHOOSE x \in S : \A y \in S : x <= y

\* pass 1 has succeeded: its table is in labels
TableBuilt ==
  \/ pc \in {"pass2", "pass3", "output"}
  \/ /\ pc = "done"
     /\ ret # None
     /\ \/ mode = "patch" /\ ret[1] \in {-6, -7, 0}
        \/ mode = "dump" /\ ret[1] \in {-2, 0}

\* the source has a LabelReference whose name the table lacks
UndeclaredReference ==
  \E i \in 1..Len(tokens) : IsReference(i) /\ ReferencedName(i) \notin DOMAIN labels

\* the source is made of spaces, CR, LF and comments only: every other
\* character has a ";" before it with no CR or LF in between
BlankSource ==
  \A i \in 1..Len(source) :
    source[i] \in {" ", CR, LF, ";"}
    \/ \E j \in 1..(i - 1) :
         /\ source[j] = ";"
         /\ \A k \in j..i : source[k] \notin {CR, LF}

\* line k (from 0) of the text c with its LF; empty when c has no such line
RECURSIVE LineOf(_, _)
LineOf(c, k) ==
  LET ends == {i \in 1..Len(c) : c[i] = LF}
      stop == IF ends = {} THEN Len(c)
              ELSE CHOOSE i \in ends : \A j \in ends : i <= j
  IN  IF k = 0 THEN SubSeq(c, 1, stop)
      ELSE LineOf(SubSeq(c, stop + 1, Len(c)), k - 1)

\* the line is what patch mode expects of line k: the prefix of index k,
\* hex_digits characters, the suffix
LineWellFormed(line, k) ==
  /\ StartsWith(line, prefix(k))
  /\ EndsWith(line, suffix)
  /\ Len(line) = Len(prefix(k)) + hex_digits + Len(suffix)

\* the positions in the bytes c at which a line of the text ends: every "\n",
\* and every "\r" that no "\n" follows
LineEndsAt(c) ==
  {i \in 1..Len(c) : \/ c[i] = LF
                     \/ c[i] = CR /\ (i = Len(c) \/ c[i + 1] # LF)}

\* line k (from 0) of the text the bytes c encode, its line end, whichever
\* of "\n", "\r\n" and "\r" it is, given as "\n"; a last line without a line
\* end as it is, and no characters where the text has no line k
TextLine(c, k) ==
  LET ends == LineEndsAt(c)
      nth(n) == CHOOSE i \in ends : Cardinality({j \in ends : j <= i}) = n
      start == IF k = 0 THEN 1 ELSE nth(k) + 1
      raw == SubSeq(c, start, nth(k + 1))
      body == SubSeq(raw, 1, Len(raw) - (IF EndsWith(raw, <<CR, LF>>) THEN 2 ELSE 1))
  IN  IF k > Cardinality(ends) THEN <<>>
      ELSE IF k = Cardinality(ends) THEN Decode(SubSeq(c, start, Len(c)))
      ELSE Append(Decode(body), LF)

\* the destination the caller named, as it was, is a file of UTF-8 text
DestIsText == dest.kind # "none" /\ Decodable(FileOf(dest).content, TRUE)

\* the destination the caller named, as it was, has its lines well formed
DestWellFormed ==
  /\ DestIsText
  /\ \A k \in 0..(lines - 1) : LineWellFormed(TextLine(FileOf(dest).content, k), k)

DestUntouched == file.writes = 0 /\ file.content = FileOf(dest).content

\* what a parse of the source finds, apart from any orchestrator: the
\* LabelLister's parse, and a Translator's parse with the table of the former
Verdict ==
  LET listed == parse_loop(begin_parse(Cur, LabelLister, NoWriter))
      translated ==
        parse_loop(begin_parse(Cur, Translator(listed.worker.labels, word_size),
                               Writer))
  IN  [syntax |-> listed.perror = None,
       declared |-> translated.worker.errors = <<>>,
       words |-> Len(translated.emitted)]
WordsEmitted == Verdict.words

\* the source has no syntax error, no undeclared label and at most n words
Validated(n) ==
  LET v == Verdict IN v.syntax /\ v.declared /\ v.words <= n

\* a pass of the assembler has failed
PassFailed ==
  /\ pc = "done"
  /\ ret # None
  /\ \/ mode = "patch" /\ ret[1] \in {-5, -6, -7}
     \/ mode = "dump" /\ ret[1] \in {-1, -2}

\* C1: in patch mode the destination is written only once the format check
\* and passes 1, 2 and 3 have all succeeded, and an assembly that ends with
\* a failure has made no write and left the content as it was.
C1_WritesOnlyAfterValidation ==
  mode = "patch" =>
    /\ file.writes > 0 =>
         /\ pc \in {"output", "done"}
         /\ DestWellFormed
         /\ Validated(Capacity)
    /\ (pc = "done" /\ ret # Some(0)) => DestUntouched

\* a patch has written the destination after a program was validated
C1_Witness ==
  /\ mode = "patch"
  /\ pc = "done"
  /\ ret = Some(0)
  /\ file.writes > 0
  /\ WordsEmitted = 2

\* C2: in both modes, once pass 1 has built the table, a source with a
\* LabelReference whose name is not in it never gets past pass 2: assembly
\* ends with the undeclared-label error (-6 in patch mode, -2 in dump mode)
\* and its message, no TextIOWriter or SRAMvWriter is ever given a word, the
\* destination is not written and stdout holds messages only.
C2_UndeclaredLabelFails ==
  (mode \in {"patch", "dump"} /\ TableBuilt /\ UndeclaredReference) =>
    /\ pc \in {"pass2", "done"}
    /\ pc = "done" =>
         /\ ret = Some(IF mode = "patch" THEN -6 ELSE -2)
         /\ Len(stdout) > 0
         /\ Last(stdout) = MsgUndeclared
    /\ writer.kind \notin {"TextIOWriter", "SRAMvWriter"}
    /\ file.writes = 0
    /\ \A i \in 1..Len(stdout) : stdout[i] \in {MsgRedeclared, MsgUndeclared}

\* a dump of a source that refers to an undeclared label after a word has
\* ended with the undeclared-label error
C2_Witness ==
  /\ mode = "dump"
  /\ pc = "done"
  /\ ret = Some(-2)
  /\ UndeclaredReference
  /\ source = FragRegister \o FragReferA

\* C3: in patch mode assembly ends with the capacity error exactly when the
\* format check and passes 1 and 2 succeed and the program has more words
\* than Capacity = lines * line_size; a validated program of at most
\* Capacity words succeeds; on the capacity error the destination is as it was.
C3_CapacityError ==
  (mode = "patch" /\ pc = "done") =>
    /\ DestWellFormed =>
         LET v == Verdict
         IN  /\ (v.syntax /\ v.declared /\ v.words > Capacity) => ret = Some(-7)
             /\ (v.syntax /\ v.declared /\ v.words <= Capacity) => ret = Some(0)
             /\ ret = Some(-7) => (v.syntax /\ v.declared /\ v.words > Capacity)
    /\ ret = Some(-7) => (DestWellFormed /\ DestUntouched)

\* a program of one word more than the capacity has been refused
C3_Witness ==
  /\ mode = "patch"
  /\ pc = "done"
  /\ ret = Some(-7)
  /\ WordsEmitted = Capacity + 1
  /\ DestUntouched

\* C4: in patch mode, when a line of the text of the destination lacks the
\* prefix of its index or the suffix, or has not hex_digits characters between
\* them, assembly ends with a format error (-2, -3 or -4) and its message, no
\* pass has run (no token was read, no worker made) and nothing was written.
C4_FormatErrorAborts ==
  (mode = "patch" /\ DestIsText /\ ~DestWellFormed /\ pc # "start") =>
    /\ pc = "done"
    /\ ret \in {Some(-2), Some(-3), Some(-4)}
    /\ stdout \in {<<MsgBadPrefix>>, <<MsgBadSuffix>>, <<MsgBadDigits>>}
    /\ tokens = <<>>
    /\ worker = NoWorker
    /\ writer = NoWriter
    /\ DestUntouched

\* the third line of the destination is one digit short and assembly has
\* ended with the digit-count error
C4_Witness ==
  /\ mode = "patch"
  /\ dest = [kind |-> "short", k |-> 2]
  /\ pc = "done"
  /\ ret = Some(-4)
  /\ Len(source) > 0

\* C5: when assembly succeeds, each name of the table has the index (from 0)
\* of the first word completed after its declaration (the last one that a
\* word follows), and the word every LabelReference emits has exactly that
\* address as its value.
C5_LabelAddresses ==
  (mode \in {"patch", "dump"} /\ pc = "done" /\ ret = Some(0)) =>
    /\ \A name \in DOMAIN labels :
         LET bound == {i \in DeclarationsOf(name) : FollowedByWord(i)}
         IN  bound # {} /\ labels[name] = WordsBefore(SetMax(bound))
    /\ \A i \in 1..Len(tokens) :
         IsReference(i) =>
           WordValue(emitted[WordsBefore(i) + 1]) = labels[ReferencedName(i)]

\* C6: at the end of a pass 1 without error on a source whose every
\* referenced label is declared, the LabelLister's word counter equals the
\* number of words a Translator hands to its Writer on the same tokens.
C6_FlushesEqualWords ==
  (/\ mode \in {"patch", "dump"}
   /\ pc = "pass1"
   /\ ti > Len(tokens)
   /\ perror = None
   /\ \A i \in 1..Len(tokens) : IsReference(i) => ReferencedName(i) \in DeclaredNames) =>
    worker.memory_word_index = WordsEmitted

\* C7: at the end of a pass 1 without error, the warnings are as many as the
\* declarations less the distinct declared names, and the table maps each
\* declared name to the address of its most recent declaration.
C7_Redeclaration ==
  (mode \in {"patch", "dump"} /\ pc = "pass1" /\ ti > Len(tokens) /\ perror = None) =>
    /\ Len(worker.warnings) =
         Cardinality({i \in 1..Len(tokens) : IsDeclaration(i)})
           - Cardinality(DeclaredNames)
    /\ \A name \in DeclaredNames :
         /\ name \in DOMAIN worker.labels
         /\ worker.labels[name] = WordsBefore(SetMax(DeclarationsOf(name)))

\* the tokens before ti have been translated into words, none skipped for a
\* name the table lacks
Translated ==
  /\ mode \in {"patch", "dump"}
  /\ worker.kind = "Translator"
  /\ \A j \in 1..(ti - 1) : IsReference(j) => ReferencedName(j) \in DOMAIN labels

\* the word that token i completed
WordAt(i) == emitted[WordsBefore(i) + 1]

\* the value of the data word of token i
ValueAt(i) ==
  IF IsReference(i) THEN labels[ReferencedName(i)]
  ELSE numeric_value(classify_token(tokens[i]))

\* C8: in every Translator pass, the word of a register instruction
\* 'op Ra Rb' is the 9 bits of opcode(op)*64 + code(Ra)*8 + code(Rb), most
\* significant first; the word of 'mvi Ra' is the 9 bits of 64 + code(Ra)*8,
\* and the next word emitted after it is the 9 bits of the literal value or
\* label address that follows.
C8_InstructionEncoding ==
  Translated =>
    \A i \in 1..(ti - 1) :
      /\ (CompletesWord(i) /\ TokenType(i) = "Register"
            /\ TokenType(i - 1) = "Register") =>
           WordAt(i) = WordOf(RegisterInstruction_CODES[tokens[i - 2].raw] * 64
                                + Register_CODES[tokens[i - 1].raw] * 8
                                + Register_CODES[tokens[i].raw], 9)
      /\ (CompletesWord(i) /\ TokenType(i) = "Register"
            /\ TokenType(i - 1) = "ImmediateInstruction") =>
           /\ WordAt(i) = WordOf(64 + Register_CODES[tokens[i].raw] * 8, 9)
           /\ LET later == {j \in (i + 1)..(ti - 1) : CompletesWord(j)}
              IN  later # {} =>
                    /\ TokenType(SetMin(later)) \in {"Literal", "LabelReference"}
                    /\ emitted[WordsBefore(i) + 2] = WordOf(ValueAt(SetMin(later)), 9)

\* the final pass has translated "mvi R2" with the address 2 of label a,
\* which is declared after it, the data word 5 at that address, "sub R1 PC",
\* and "mvi R2" with the literal 5
C8_Witness ==
  /\ Translated
  /\ pc = "done"
  /\ ret = Some(0)
  /\ source = ProgramOfEachInstruction
  /\ \E i \in 1..Len(tokens) : IsReference(i) /\ ValueAt(i) = 2
  /\ emitted = <<WordOf(64 + 2 * 8, 9), WordOf(2, 9), WordOf(5, 9),
                 WordOf(3 * 64 + 1 * 8 + 7, 9),
                 WordOf(64 + 2 * 8, 9), WordOf(5, 9)>>

\* C9: on a source of spaces, CR, LF and comments only, the lexer yields
\* only Newline tokens, the parser stays in Initial without an error, no pass
\* fails, no word is emitted, and assembly ends with 0 when it ran.
C9_BlankSourceAssemblesToNothing ==
  (BlankSource /\ mode \in {"patch", "dump"}) =>
    /\ \A i \in 1..Len(tokens) : tokens[i].raw = <<LF>>
    /\ parser = Initial
    /\ perror = None
    /\ emitted = <<>>
    /\ ~PassFailed
    /\ (pc = "done" /\ (mode = "dump" \/ dest = GoodDest)) => ret = Some(0)
    /\ (pc = "done" /\ mode = "dump") => stdout = <<>>

\* a blank source with a comment and a CR has been assembled to the end
C9_Witness ==
  /\ BlankSource
  /\ source = FragComment \o FragCR
  /\ pc = "done"
  /\ ret = Some(0)
  /\ Len(tokens) > 0

\* C10: the lexer yields Text(a), Newline, Text(b) for "a\r\nb" and "a\rb",
\* and Text(a), Newline, Newline, Text(b) for "a\n\nb" and "a\r\rb".
C10_NewlineConventions ==
  (mode = "lex" /\ pc = "done") =>
    /\ source \in {<<"a", CR, LF, "b">>, <<"a", CR, "b">>} =>
         TokenRaws(lexer.out) = <<<<"a">>, <<LF>>, <<"b">>>>
    /\ source \in {<<"a", LF, LF, "b">>, <<"a", CR, CR, "b">>} =>
         TokenRaws(lexer.out) = <<<<"a">>, <<LF>>, <<LF>>, <<"b">>>>

\* the lexer has ended on "a\r\rb"
C10_Witness ==
  /\ mode = "lex"
  /\ pc = "done"
  /\ source = <<"a", CR, CR, "b">>
  /\ Len(lexer.out) = 4

\* the Newline tokens among the tokens the lexer has yielded
NewlinesYielded == Cardinality({i \in 1..Len(lexer.out) : lexer.out[i].raw = <<LF>>})

\* the lexer has read a "\r" and waits for the next character to yield its Newline
NewlinePending == lexer.state = "NEWLINE" /\ lexer.last_newline_char = CR

\* the line ends of the text s: every "\n", and every "\r" that no "\n" follows
LineEnds(s) ==
  Cardinality({i \in 1..Len(s) :
                 \/ s[i] = LF
                 \/ s[i] = CR /\ (i = Len(s) \/ s[i + 1] # LF)})

\* the source is a "\r" and c, a "\r" or "\n", with no other "\r" or "\n"
\* in the source
OnePair(c) ==
  \E i \in 1..(Len(source) - 1) :
    /\ source[i] = CR
    /\ source[i + 1] = c
    /\ \A j \in 1..Len(source) : j \notin {i, i + 1} => source[j] \notin {CR, LF}

\* C11 as stated: a source whose only "\r" and "\n" are one "\r\n" or one
\* "\r\r" gives exactly one Newline token.
C11_PairsCollapse ==
  (mode = "lex" /\ pc = "done" /\ (OnePair(LF) \/ OnePair(CR))) => NewlinesYielded = 1

\* C11 amended: each time the lexer is about to read a character, the Newline
\* tokens yielded plus the one pending after a "\r" are as many as the line
\* ends of the text read so far, "\r\n" being one line end and "\r\r" two;
\* and a source whose only
\* "\r" and "\n" are one "\r\n" gives exactly one Newline token, whatever
\* follows it and also at the end of the input.
C11_LineEndsYielded ==
  mode = "lex" =>
    /\ (pc = "lexing" /\ LexAtLoopTop) =>
         NewlinesYielded + (IF NewlinePending THEN 1 ELSE 0)
           = LineEnds(SubSeq(source, 1, lpos))
    /\ (pc = "done" /\ OnePair(LF)) => NewlinesYielded = 1

\* "\r\r" and a text character have been read: two Newline tokens are out
C11_Witness ==
  /\ mode = "lex"
  /\ pc = "lexing"
  /\ LexAtLoopTop
  /\ lpos = 3
  /\ SubSeq(source, 1, 3) = <<CR, CR, "a">>
  /\ NewlinesYielded = 2

\* C12: when the last character of the input is "\r", the last token the
\* lexer yields is the Newline of that "\r".
C12_TrailingCarriageReturn ==
  (mode = "lex" /\ pc = "done" /\ Len(source) > 0 /\ Last(source) = CR) =>
    /\ Len(lexer.out) > 0
    /\ Last(lexer.out).raw = <<LF>>
    /\ NewlinesYielded = LineEnds(source)

\* the text of a literal after its prefix, and the base the prefix names
LiteralBody(raw) ==
  IF StartsWith(raw, <<"0", "b">>) THEN SubSeq(raw, 3, Len(raw)) ELSE raw

LiteralBase(raw) == IF StartsWith(raw, <<"0", "b">>) THEN 2 ELSE 10

IsSeparator(c) == c = "_"

IsDigit(c) == ~IsSeparator(c)

\* the digits of a literal, most significant first, separators left out
LiteralDigits(raw) == SelectSeq(LiteralBody(raw), IsDigit)

DigitOf(c) == CHOOSE k \in 0..9 : DecimalDigits[k + 1] = c

\* the text is digits of its base and separators, with at least one digit
DenotesValue(raw) ==
  /\ Len(LiteralDigits(raw)) > 0
  /\ \A i \in 1..Len(LiteralDigits(raw)) :
       \E k \in 0..(LiteralBase(raw) - 1) : DecimalDigits[k + 1] = LiteralDigits(raw)[i]

\* the value of the first i digits, most significant first; LiteralLimit
\* stands for every value of LiteralLimit or more
RECURSIVE ValueOfDigits(_, _, _)
ValueOfDigits(digits, base, i) ==
  IF i = 0 THEN 0
  ELSE LET v == ValueOfDigits(digits, base, i - 1) * base + DigitOf(digits[i])
       IN  IF v >= LiteralLimit THEN LiteralLimit ELSE v

DenotedValue(raw) ==
  ValueOfDigits(LiteralDigits(raw), LiteralBase(raw), Len(LiteralDigits(raw)))

\* C13: a raw token is classified as Literal exactly when its text is digits
\* of its base (decimal, or binary after 0b) and separators that denote a
\* value of at most 511, and numeric_value returns that value.
C13_LiteralRange ==
  (mode = "classify" /\ pc \in {"classified", "done"}) =>
    /\ tokens[1].type = "Literal"
         <=> (DenotesValue(source) /\ DenotedValue(source) < LiteralLimit)
    /\ (pc = "done" /\ tokens[1].type = "Literal") =>
         ret = Some(DenotedValue(source))

\* the classes whose try_parse accepts the raw token, all seven tried
Accepting == {emitted[i] : i \in 1..Len(emitted)}

AllTried == mode = "classify" /\ ti > Len(token_types)

\* C14 as stated: at most one of the seven try_parse predicates accepts a raw
\* token text.
C14_MutuallyExclusive == AllTried => Cardinality(Accepting) <= 1

\* C14 amended: two predicates accept the same text exactly when the text
\* starts and ends with ":", the two are LabelDeclaration and LabelReference,
\* and the classifier makes it a LabelDeclaration; every other text is
\* accepted by at most one predicate, which is then the class it gets.
C14_OnlyColonTextsCollide ==
  AllTried =>
    /\ IF StartsWith(source, <<":">>) /\ EndsWith(source, <<":">>)
       THEN Accepting = {"LabelDeclaration", "LabelReference"}
       ELSE Cardinality(Accepting) <= 1
    /\ pc \in {"classified", "done"} =>
         /\ Accepting = {} => tokens[1] = NoToken
         /\ Accepting # {} => tokens[1].type = emitted[1]
         /\ "LabelDeclaration" \in Accepting => tokens[1].type = "LabelDeclaration"

\* ":b:" is accepted by two predicates and classified as a LabelDeclaration
C14_Witness ==
  /\ AllTried
  /\ pc = "classified"
  /\ source = <<":", "b", ":">>
  /\ Cardinality(Accepting) = 2
  /\ tokens[1].type = "LabelDeclaration"

HexDigits ==
  <<"0", "1", "2", "3", "4", "5", "6", "7", "8", "9", "A", "B", "C", "D", "E", "F">>

\* the words of the destination after a patch of the words ws: the program
\* words, then zero words up to the capacity
Padded(ws) == ws \o [i \in 1..(Capacity - Len(ws)) |-> Repeat(0, word_size)]

\* bit b (from 1, the first) of line k of the words ws: the first word of
\* the line is the last word_size bits
LineBit(ws, k, b) ==
  ws[k * line_size + (line_size - 1 - ((b - 1) \div word_size)) + 1]
    [((b - 1) % word_size) + 1]

\* the hexadecimal digits of line k of the words ws
HexLine(ws, k) ==
  [g \in 1..hex_digits |->
     HexDigits[8 * LineBit(ws, k, 4 * g - 3) + 4 * LineBit(ws, k, 4 * g - 2)
               + 2 * LineBit(ws, k, 4 * g - 1) + LineBit(ws, k, 4 * g) + 1]]

\* the lines 0..n-1 of the destination of the words ws
RECURSIVE LinesText(_, _)
LinesText(ws, n) ==
  IF n = 0 THEN <<>>
  ELSE LinesText(ws, n - 1) \o prefix(n - 1) \o HexLine(ws, n - 1) \o suffix

PatchDone == mode = "patch" /\ pc = "done" /\ ret = Some(0)

\* C15: after a successful patch the destination holds, from the first line
\* position on, the lines of indices 0..lines-1 in order, each with its
\* prefix, hex_digits hexadecimal digits and its suffix, that hold exactly
\* Capacity words, the program's words and then zero words; the footer
\* follows the last line and was written once; every line buffer was flushed.
C15_WholeImageWritten ==
  PatchDone =>
    LET text == LinesText(Padded(emitted), lines) \o footer
    IN  /\ Len(emitted) <= Capacity
        /\ SubSeq(file.content, 1, Len(text)) = text
        /\ \A k \in 0..(lines - 1) : LineWellFormed(LineOf(file.content, k), k)
        /\ file.writes = lines * (hex_digits + 2) + 1
        /\ writer.written_words = Capacity
        /\ writer.buffer_index = max_index(writer)

\* a patch of a program of Capacity - 1 words has ended with success
C15_Witness ==
  /\ PatchDone
  /\ Len(emitted) = Capacity - 1
  /\ writer.written_words = Capacity

\* the value of a hexadecimal digit, 16 for any other character
HexValue(c) ==
  IF \E v \in 0..15 : HexDigits[v + 1] = c
  THEN CHOOSE v \in 0..15 : HexDigits[v + 1] = c
  ELSE 16

\* bit p (from 0, the least significant) of the number that the digits read
\* as, most significant digit first
NumberBit(digits, p) ==
  (HexValue(digits[Len(digits) - (p \div 4)]) \div Pow(2, p % 4)) % 2

\* bit p (from 0, the least significant) of the sum of word j * 2^(word_size * j)
\* over the words j = 0..line_size-1 of line k of the words ws; a word holds
\* its value most significant bit first
SumBit(ws, k, p) ==
  ws[k * line_size + (p \div word_size) + 1][word_size - (p % word_size)]

\* the hexadecimal digits of line k of the destination
DigitsOfLine(k) ==
  SubSeq(LineOf(file.content, k), Len(prefix(k)) + 1, Len(prefix(k)) + hex_digits)

\* the words of the current line in the buffer of the SRAMvWriter
WordsInBuffer == writer.written_words % line_size

\* C19: the SRAMvWriter puts word k (from 0) of a line at the bits
\* [(line_size-1-k)*word_size, (line_size-k)*word_size) of its buffer, and
\* the hexadecimal digits of a flushed line are upper-case digits that read,
\* most significant first, as the number of the sum of word k * 2^(word_size*k)
\* (stated bit by bit: the number has hex_digits * 4 bits).
C19_WordPacking ==
  /\ (mode = "patch" /\ pc = "output") =>
       /\ writer.buffer_index = (line_size - 1 - WordsInBuffer) * word_size
       /\ \A k \in 0..(WordsInBuffer - 1) :
            SubSeq(writer.buffer, (line_size - 1 - k) * word_size + 1,
                   (line_size - k) * word_size)
              = emitted[writer.written_words - WordsInBuffer + k + 1]
  /\ PatchDone =>
       LET image == Padded(emitted)
       IN  \A k \in 0..(lines - 1) :
             LET digits == DigitsOfLine(k)
             IN  /\ \A g \in 1..hex_digits : HexValue(digits[g]) < 16
                 /\ \A p \in 0..(hex_digits * 4 - 1) :
                      NumberBit(digits, p) = SumBit(image, k, p)

\* a patch of the words 80 and 5 has ended: line 0 ends with the digits of
\* 5 * 2^9 + 80 = A50
C19_Witness ==
  /\ PatchDone
  /\ emitted = <<WordOf(64 + 2 * 8, 9), WordOf(5, 9)>>
  /\ SubSeq(DigitsOfLine(0), hex_digits - 3, hex_digits) = <<"0", "A", "5", "0">>

BitChars == <<"0", "1">>

\* the lines of the words ws: the bits of each word as characters, first bit
\* first, and a newline
RECURSIVE WordLines(_)
WordLines(ws) ==
  IF ws = <<>> THEN <<>>
  ELSE WordLines(SubSeq(ws, 1, Len(ws) - 1))
       \o [i \in 1..word_size |-> BitChars[Last(ws)[i] + 1]] \o <<LF>>

\* C16: in dump mode, while the final pass runs and after it has ended, the
\* output is the lines of the words emitted so far, in emission order: for
\* each word its word_size bits as "0"/"1", most significant first, and a
\* newline; each emitted word is word_size bits.
C16_DumpLines ==
  (mode = "dump" /\ (pc = "output" \/ (pc = "done" /\ ret = Some(0)))) =>
    /\ \A i \in 1..Len(emitted) : Len(emitted[i]) = word_size
    /\ stdout = WordLines(emitted)

\* the token classes each parser state accepts
AcceptedTypes(p) ==
  CASE p.state = "Initial" ->
         {"Newline", "LabelDeclaration", "RegisterInstruction",
          "ImmediateInstruction", "Literal", "LabelReference"}
    [] p.state = "RegisterInstruction" /\ p.substate \in {0, 1} -> {"Register"}
    [] p.state = "RegisterInstruction" /\ p.substate = 2 -> {"Newline"}
    [] p.state = "ImmediateInstruction" /\ p.substate = 0 -> {"Register"}
    [] p.state = "ImmediateInstruction" /\ p.substate = 1 -> {"Newline"}
    [] p.state = "ImmediateInstruction" /\ p.substate = 2 ->
         {"Newline", "LabelDeclaration", "Literal", "LabelReference"}
    [] p.state = "NumericValue" -> {"Newline"}

\* a parse is about to read a token that is of a class and that the parser
\* state does not accept
RejectedTokenNext ==
  /\ pc \in ParsePcs
  /\ perror = None
  /\ ti <= Len(tokens)
  /\ TokenType(ti) \notin AcceptedTypes(parser) \cup {"None"}

\* parse has met a token the parser state does not accept
UnexpectedTokenMet ==
  pc \in ParsePcs /\ perror # None /\ perror[1].kind = "Unexpected"

\* C17: in every parser state a token of a class the state does not accept
\* makes parse return the unexpected-token error of that token at once: the
\* step that reads the token leaves the worker, the writer, the words
\* emitted, the output and the parser state as they were, and the next step
\* is the return of the error, with no other token read.
C17_UnexpectedTokenStops ==
  [][/\ RejectedTokenNext =>
          /\ perror' = Some([kind |-> "Unexpected", type |-> TokenType(ti),
                             raw |-> tokens[ti].raw, line |-> tokens[ti].line,
                             column |-> tokens[ti].column])
          /\ ti' = ti + 1
          /\ UNCHANGED <<parser, worker, writer, emitted, stdout, file, labels, pc, ret>>
     /\ UnexpectedTokenMet =>
          /\ pc' = "done"
          /\ ret' = Some(IF mode = "patch" THEN -5 ELSE -1)
          /\ stdout' = Append(stdout, MsgUnexpected)
          /\ UNCHANGED <<parser, worker, writer, emitted, file, labels, ti, perror>>
    ]_vars

\* a Newline is missing after the two registers of a register instruction:
\* the fourth token was rejected in substate 2
C17_Witness ==
  /\ pc = "done"
  /\ ret = Some(-1)
  /\ perror # None
  /\ perror[1].kind = "Unexpected"
  /\ parser = [state |-> "RegisterInstruction", substate |-> 2]
  /\ ti = 5
  /\ worker.kind = "LabelLister"
  /\ worker.memory_word_index = 1

\* a parse has read its last token without an error and is inside a construct
EndsInsideConstruct ==
  /\ pc \in ParsePcs
  /\ perror = None
  /\ ti > Len(tokens)
  /\ parser.state # "Initial"

ParseErrorMessages == {MsgUnexpected, MsgUnrecognized}

\* C18: a token sequence that ends while the parser is in a state other than
\* Initial is not an error: the parse reports none, pass 1 goes on to pass 2,
\* pass 2 reports at most undeclared labels, and the final pass ends with 0.
C18_EndInsideConstruct ==
  [][EndsInsideConstruct =>
       /\ perror' = None
       /\ \A i \in 1..Len(stdout') : stdout'[i] \notin ParseErrorMessages
       /\ pc = "pass1" => (pc' = "pass2" /\ ret' = None)
       /\ pc = "pass2" =>
            \/ pc' \in {"pass3", "output"} /\ ret' = None
            \/ pc' = "done" /\ ret' = Some(IF mode = "patch" THEN -6 ELSE -2)
       /\ pc = "output" => (pc' = "done" /\ ret' = Some(0))
    ]_vars

\* "mvi R1" and a Newline have been assembled with success: every parse ended
\* in substate 2 of ImmediateInstruction
C18_Witness ==
  /\ mode = "dump"
  /\ pc = "done"
  /\ ret = Some(0)
  /\ parser = [state |-> "ImmediateInstruction", substate |-> 2]
  /\ ti > Len(tokens)
  /\ Len(emitted) = 1

\* the bits of a word not yet handed to the Writer, by the parser state
BitsPending(p) ==
  CASE p.state = "RegisterInstruction" /\ p.substate = 0 -> 3
    [] p.state = "RegisterInstruction" /\ p.substate = 1 -> 6
    [] p.state = "ImmediateInstruction" /\ p.substate = 0 -> 3
    [] OTHER -> 0

\* the references to undeclared labels among the tokens before token i
SkippedBefore(i) ==
  Cardinality({j \in 1..(i - 1) : IsReference(j) /\ ReferencedName(j) \notin DOMAIN labels})

\* C20: in every pass of a Translator, also when references to undeclared
\* labels are skipped, the index into the bit buffer is 0 in Initial, in
\* NumericValue, in substate 2 of RegisterInstruction and in substates 1 and
\* 2 of ImmediateInstruction, 3 after an operation name and 6 after the first
\* register of a register instruction; the words handed to the Writer are as
\* many as the constructs completed, less the references skipped, and each
\* is word_size bits.
C20_WordAlignment ==
  (mode \in {"patch", "dump"} /\ worker.kind = "Translator") =>
    /\ worker.buffer_index = BitsPending(parser)
    /\ Len(emitted) + SkippedBefore(ti) = WordsBefore(ti)
    /\ Len(worker.errors) = SkippedBefore(ti)
    /\ \A i \in 1..Len(emitted) : Len(emitted[i]) = word_size

\* pass 2 has skipped a reference to an undeclared label and is inside the
\* register instruction that follows it
C20_Witness ==
  /\ pc = "pass2"
  /\ worker.kind = "Translator"
  /\ Len(worker.errors) = 1
  /\ parser = [state |-> "RegisterInstruction", substate |-> 1]
  /\ worker.buffer_index = 6

\* the parser state and the error of the machine m, and those after each
\* further iteration of parse to its end
RECURSIVE Trajectory(_)
Trajectory(m) ==
  LET here == <<[parser |-> m.parser, perror |-> m.perror]>>
  IN  IF ParseEnded(m) THEN here ELSE here \o Trajectory(parse_step(m))

\* the parser states and errors of a parse with the worker w and the writer
\* wr on the tokens of the source
Transitions(w, wr) ==
  Trajectory([Cur EXCEPT !.worker = w, !.writer = wr, !.parser = Initial,
                         !.ti = 1, !.perror = None, !.emitted = <<>>])

\* the Writers a Translator is made with
TranslatorWriters == {Writer, WordCounter, TextIOWriter, SRAMvWriter(word_size, line_size)}

\* C21: on a fixed source the parser states and the error of parse do not
\* depend on the Worker.  In every state of every parse the parser state and
\* the error are those of a LabelLister's parse after as many iterations; on
\* every source, accepted by pass 1 or not, a Translator with the empty
\* table or a table of the names the source declares, and with any Writer,
\* goes through the states and to the error of the LabelLister after every
\* number of tokens; and passes 2, 3 and the final pass, which run only when
\* pass 1 reported no error, report none.
C21_WorkerIndependent ==
  (mode \in {"patch", "dump"} /\ pc \in ParsePcs) =>
    /\ ti = 1 => tokens = Tokenize(source)
    /\ LET listed == Transitions(LabelLister, NoWriter)
       IN  /\ ti <= Len(listed)
           /\ [parser |-> parser, perror |-> perror] = listed[ti]
           /\ (pc = "pass1" /\ ti = 1) =>
                \A table \in {EmptyLabels, [name \in DeclaredNames |-> 0]} :
                  \A wr \in TranslatorWriters :
                    Transitions(Translator(table, word_size), wr) = listed
    /\ pc # "pass1" => perror = None

\* the final pass, with a TextIOWriter, has read a declaration, a literal and
\* a reference to the label and is in state NumericValue
C21_Witness ==
  /\ mode = "dump"
  /\ pc = "output"
  /\ writer.kind = "TextIOWriter"
  /\ ti = 5
  /\ parser = NumericValueState
  /\ Len(emitted) = 2
  /\ TokenType(4) = "LabelReference"

\* C22: once pass 1 has accepted the source, every name the source declares
\* is in the label table, the names declared after the last word included,
\* and assembly ends with the undeclared-label error only when the source
\* refers to a name it does not declare.
C22_DeclaredLabelsListed ==
  (mode \in {"patch", "dump"} /\ TableBuilt) =>
    /\ DeclaredNames \subseteq DOMAIN labels
    /\ (pc = "done" /\ ret = Some(IF mode = "patch" THEN -6 ELSE -2)) =>
         \E i \in 1..Len(tokens) :
           IsReference(i) /\ ReferencedName(i) \notin DeclaredNames

\* the bits the parser hands to the Translator for token i: an operation
\* name and a register are 3 bits, the register of an immediate instruction
\* comes with 3 bits more, a literal and a reference are a word
BitsOfToken(i) ==
  CASE TokenType(i) \in {"RegisterInstruction", "ImmediateInstruction"} -> 3
    [] TokenType(i) = "Register" ->
         IF i > 1 /\ TokenType(i - 1) = "ImmediateInstruction" THEN 6 ELSE 3
    [] TokenType(i) \in {"Literal", "LabelReference"} -> word_size
    [] OTHER -> 0

RECURSIVE BitsBefore(_)
BitsBefore(i) == IF i <= 1 THEN 0 ELSE BitsBefore(i - 1) + BitsOfToken(i - 1)

\* C23: when assembly succeeds, the bit buffer of the Translator of the
\* final pass is empty, and the bits of the words handed to the Writer are
\* all the bits of the tokens the parser accepted.
C23_NoBitsDropped ==
  (mode \in {"patch", "dump"} /\ pc = "done" /\ ret = Some(0)) =>
    /\ worker.kind = "Translator"
    /\ worker.buffer_index = 0
    /\ Len(emitted) * word_size = BitsBefore(Len(tokens) + 1)

\* C24: after a successful assembly, in patch mode and in dump mode, the
\* word emitted for each LabelReference is word_size bits whose value is the
\* address the table gives the label, whatever the address.
C24_AddressNotTruncated ==
  (mode \in {"patch", "dump"} /\ pc = "done" /\ ret = Some(0)) =>
    \A i \in {j \in 1..Len(tokens) : IsReference(j)} :
      LET word == emitted[WordsBefore(i) + 1]
      IN  /\ Len(word) = word_size
          /\ labels[ReferencedName(i)] = WordValue(word)

\* C25: at the end of every input the Newline tokens the lexer has yielded
\* are at most the line ends of the input, "\r\n" being one line end and
\* every other "\r" or "\n" one.
C25_NoExtraNewline ==
  (mode = "lex" /\ pc = "done") => NewlinesYielded <= LineEnds(source)

\* C26: a raw token is classified as Literal only if its text, after the
\* prefix 0b when it has one, holds at least one digit character.
C26_LiteralHasDigit ==
  (mode = "classify" /\ pc \in {"classified", "done"} /\ tokens[1].type = "Literal") =>
    \E i \in 1..Len(LiteralBody(source)) :
      \E k \in 0..9 : LiteralBody(source)[i] = DecimalDigits[k + 1]

====
